---- MODULE Spec2Model ----
(***************************************************************************)
(* Combat core of Oplus-Challenge (Bevy): basic attack, Slash, projectiles, *)
(* the projectile/VFX pools and the death steps.                            *)
(*                                                                          *)
(* Units.  Lengths are in hundredths of a world unit (W(80) = 80.0), times  *)
(* in ticks of 0.05 s (a cooldown of 0.6 s is 12), health and damage in     *)
(* tenths of a point (Health 100.0 is 1000, 20.0 * 1.5 is 300).             *)
(*                                                                          *)
(* A unit vector is kept as the integer vector it was normalized from: the  *)
(* WASD sum <<1, 1>> stands for (1,1)/sqrt(2).  A projection on it is an    *)
(* integer divided by sqrt(N2(f)) and is compared exactly by squaring.      *)
(*                                                                          *)
(* A frame is BeginFrame (the inputs of the frame), then every Update       *)
(* system of the specification once, in any order (the plugins add them in  *)
(* tuples without .chain(), so Bevy fixes no order), then EndFrame, which   *)
(* applies the deferred Commands of the frame.  A specification composes   *)
(* the systems its properties are about; the movement systems are in none,  *)
(* so the actors stand where Init puts them.                                *)
(***************************************************************************)
EXTENDS Integers, Sequences, FiniteSets, TLC

VARIABLES
    phase,      \* "idle" between frames, "systems" while the Update systems run
    input,      \* the frame's Time delta, mouse edge, MovementInput, key edge
    ran,        \* the systems that have run in this frame
    player,     \* the Player entity: exists, Transform, Health
    attack,     \* AttackState of the player
    equip,      \* the ItemId whose WeaponDef is the player's EquipmentSet
    enemies,    \* EnemyIds -> the Enemy entity: alive, Transform, Health
    dash,       \* PlayerDash of the player
    dashCard,   \* the slots of the SkillCard entities that carry DashSkillCard
    cards,      \* the non-Dash SkillCard entities, in query order
    vfx,        \* VfxIds -> entity carrying combat::SlashVfx
    projs,      \* ProjIds -> entity carrying combat::Projectile
    ents,       \* Handles -> entity used by the combat_core pools
    projFree,   \* ProjectilePool.free
    vfxFree,    \* VfxPool.free
    castTimer,  \* elapsed time of EnemyCastTimer
    nextOther,  \* SkillPool.next_other
    gameState,  \* State<GameState>
    nextState,  \* NextState<GameState>: the pending transition, or "None"
    spawnTimer, \* elapsed time of SkillSpawnTimer
    barMap,     \* the owners that are keys of combat::EnemyHpBarMap
    bars,       \* EnemyIds -> the combat::EnemyHpBar entity of that owner
    coreBarMap, \* the owners that are keys of combat_core::EnemyHpBarMap
    coreBars,   \* EnemyIds -> the combat_core::EnemyHpBar entity of that owner
    commands    \* the Commands queued in this frame, in the order queued

frameVars == <<phase, input, ran>>
actorVars == <<player, attack, equip, enemies>>
coreVars == <<ents, projFree, vfxFree>>
skillVars == <<dash, dashCard, cards, vfx>>
aiVars == <<castTimer, nextOther>>
stateVars == <<gameState, nextState>>
uiVars == <<spawnTimer, barMap, bars, coreBarMap, coreBars>>
vars == <<phase, input, ran, player, attack, equip, enemies, dash, dashCard,
          cards, vfx, projs, ents, projFree, vfxFree, castTimer, nextOther,
          gameState, nextState, spawnTimer, barMap, bars, coreBarMap, coreBars,
          commands>>

(***************************************************************************)
(* Bounds of the model                                                      *)
(***************************************************************************)
MaxEnemies == 2
MaxProjs == 2
MaxHandles == 2
MaxCards == 1
MaxVfx == 1
\* the width of SkillPool.next_other, which wraps
NextOtherWrap == 2
\* the Slashes the first enemy takes in the frames of the skill bar
MaxCasts == 4

EnemyIds == 1..MaxEnemies
ProjIds == 1..MaxProjs
Handles == 1..MaxHandles
VfxIds == 1..MaxVfx

(***************************************************************************)
(* Units and vectors                                                        *)
(***************************************************************************)
W(x) == 100 * x
Abs(x) == IF x < 0 THEN -x ELSE x
Max0(x) == IF x < 0 THEN 0 ELSE x

ZERO == <<0, 0>>
VecY == <<0, 1>>
N2(f) == f[1] * f[1] + f[2] * f[2]
Sub(a, b) == <<a[1] - b[1], a[2] - b[2]>>
Dot(a, f) == a[1] * f[1] + a[2] * f[2]
RightOf(f) == <<-f[2], f[1]>>

\* p / sqrt(n2) <= b for b >= 0 and n2 in {1, 2}; the first conjunct keeps the
\* squares within 32 bits.
ProjLeq(p, n2, b) == p <= 0 \/ (2 * p <= 3 * b /\ p * p <= n2 * b * b)
\* p / sqrt(n2) >= -b for b >= 0
ProjGeqNeg(p, n2, b) == ProjLeq(-p, n2, b)

\* MovementInput: the normalized sum of the pressed WASD keys, or zero.
Directions ==
    {<<-1, -1>>, <<-1, 0>>, <<-1, 1>>, <<0, -1>>,
     <<0, 1>>, <<1, -1>>, <<1, 0>>, <<1, 1>>}

\* the unit vector of v as one of Directions, for v along an axis or a diagonal
Normalize(v) ==
    <<IF v[1] > 0 THEN 1 ELSE IF v[1] < 0 THEN -1 ELSE 0,
      IF v[2] > 0 THEN 1 ELSE IF v[2] < 0 THEN -1 ELSE 0>>

(***************************************************************************)
(* Equipment                                                                *)
(***************************************************************************)
WeaponDef(id) ==
    CASE id = "RustySword" ->
            [kind |-> "Melee", damage |-> 20, cooldown |-> 12,
             projectile_speed |-> 400, projectile_lifetime |-> 20,
             melee_range |-> 80, melee_width |-> 40]
      [] id = "MagicWand" ->
            [kind |-> "Ranged", damage |-> 14, cooldown |-> 7,
             projectile_speed |-> 520, projectile_lifetime |-> 24,
             melee_range |-> 60, melee_width |-> 30]
      [] id = "HunterBow" ->
            [kind |-> "Ranged", damage |-> 18, cooldown |-> 11,
             projectile_speed |-> 650, projectile_lifetime |-> 20,
             melee_range |-> 60, melee_width |-> 30]

ItemIds == {"RustySword", "MagicWand", "HunterBow"}

\* equip.weapon_damage * 1.5, in tenths
MeleeDamage(def) == def.damage * 15
\* equip.weapon_damage * 1.3, in tenths
RangedDamage(def) == def.damage * 13

(***************************************************************************)
(* Entities                                                                 *)
(***************************************************************************)
NoEnemy == [alive |-> FALSE, pos |-> ZERO, hp |-> 0, max |-> 0, contact |-> 0]
\* the enemy of spawn_enemies_around_player, at pos
NewEnemy(pos) ==
    [alive |-> TRUE, pos |-> pos, hp |-> 1000, max |-> 1000, contact |-> 0]
\* an entity slot of combat.rs: Projectile + Transform
NoProj ==
    [damage |-> 0, pos |-> ZERO, active |-> FALSE, dir |-> ZERO, speed |-> 0,
     lifetime |-> 0, from_player |-> FALSE]
\* an entity slot of combat.rs: SlashVfx and the elapsed time of its Timer
NoVfx == [active |-> FALSE, elapsed |-> 0]
\* an entity of the combat_core pools: the components it carries
NoEnt ==
    [damage |-> 0, pos |-> ZERO, dir |-> ZERO, speed |-> 0,
     lifetime |-> 0, from_player |-> FALSE, elapsed |-> 0, live |-> FALSE,
     hasProj |-> FALSE, hasVfx |-> FALSE, sprite |-> FALSE, tf |-> FALSE]
NoDash ==
    [cooldown |-> 0, is_dashing |-> FALSE, remaining |-> 0, direction |-> ZERO]
NoInput == [dt |-> 0, mouse |-> FALSE, move |-> ZERO, key |-> "None"]
\* the EnemyHpBar entity of combat.rs: its ratio field and the width of its
\* fill node, both in thousandths, and the row at which its Node is placed
NoBar == [live |-> FALSE, ratio |-> 0, fill |-> 0, row |-> 0]
\* the EnemyHpBar entity of combat_core.rs: its ratio field in thousandths and
\* the <<current, max>> its Text shows, in whole points
NoCoreBar == [live |-> FALSE, ratio |-> 0, text |-> <<0, 0>>]

Alive == {e \in EnemyIds : enemies[e].alive}
ActiveProjs == {p \in ProjIds : projs[p].active}
ActiveVfx == {v \in VfxIds : vfx[v].active}

Cmd(op, kind, id, data) == [id |-> id, kind |-> kind, op |-> op, data |-> data]

Min(S) == CHOOSE x \in S : \A y \in S : x <= y

RECURSIVE SeqOf(_)
\* the elements of a set of numbers in increasing order: the order in which a
\* query visits the entities of one table
SeqOf(S) == IF S = {} THEN <<>> ELSE <<Min(S)>> \o SeqOf(S \ {Min(S)})

FacingVec(d) ==
    CASE d = "Down" -> <<0, -1>>
      [] d = "Up" -> <<0, 1>>
      [] d = "Left" -> <<-1, 0>>
      [] d = "Right" -> <<1, 0>>

(***************************************************************************)
(* Attack Resolver: combat.rs                                               *)
(***************************************************************************)
\* perform_melee_attack with the full width on either side of the axis
MeleeHit_FullWidth(to_target, forward, length, width) ==
    LET d_forward == Dot(to_target, forward)
        d_side == Dot(to_target, RightOf(forward))
        n2 == N2(forward)
    IN  /\ d_forward >= 0
        /\ ProjLeq(d_forward, n2, W(length))
        /\ ProjLeq(Abs(d_side), n2, W(width))

\* the hit test of perform_melee_attack on one target; forward is not zero
MeleeHit(to_target, forward, length, width) ==
    LET d_forward == Dot(to_target, forward)
        d_side == Dot(to_target, RightOf(forward))
        n2 == N2(forward)
    IN  /\ d_forward >= 0
        /\ ProjLeq(d_forward, n2, W(length))
        /\ ProjLeq(Abs(d_side), n2, W(width) \div 2)

\* perform_melee_attack with the health floored at zero
PerformMeleeAttack_Clamped(origin, dir, length, width, damage, en) ==
    IF dir = ZERO
    THEN en
    ELSE [e \in EnemyIds |->
            IF en[e].alive /\ MeleeHit(Sub(en[e].pos, origin), dir, length, width)
            THEN [en[e] EXCEPT !.hp = Max0(@ - damage)]
            ELSE en[e]]

PerformMeleeAttack(origin, dir, length, width, damage, en) ==
    IF dir = ZERO
    THEN en
    ELSE [e \in EnemyIds |->
            IF en[e].alive /\ MeleeHit(Sub(en[e].pos, origin), dir, length, width)
            THEN [en[e] EXCEPT !.hp = @ - damage]
            ELSE en[e]]

SLASH_LENGTH == 260
SLASH_WIDTH == 100
SLASH_DAMAGE == 60
EPS == 6

\* skill_slash without the tolerance behind the origin
SlashHit_NoEps(to_target, forward) ==
    LET d_forward == Dot(to_target, forward)
        d_side == Dot(to_target, RightOf(forward))
        n2 == N2(forward)
    IN  /\ d_forward >= 0
        /\ ProjLeq(d_forward, n2, W(SLASH_LENGTH) + W(EPS))
        /\ ProjLeq(Abs(d_side), n2, W(SLASH_WIDTH) \div 2 + W(EPS))

\* the hit test of skill_slash on one target; forward is not zero
SlashHit(to_target, forward) ==
    LET d_forward == Dot(to_target, forward)
        d_side == Dot(to_target, RightOf(forward))
        n2 == N2(forward)
    IN  /\ ProjGeqNeg(d_forward, n2, W(EPS))
        /\ ProjLeq(d_forward, n2, W(SLASH_LENGTH) + W(EPS))
        /\ ProjLeq(Abs(d_side), n2, W(SLASH_WIDTH) \div 2 + W(EPS))

SkillSlash(origin, dir, en) ==
    LET forward == IF dir = ZERO THEN VecY ELSE dir
    IN  [e \in EnemyIds |->
            IF en[e].alive /\ SlashHit(Sub(en[e].pos, origin), forward)
            THEN [en[e] EXCEPT !.hp = @ - SLASH_DAMAGE * 10]
            ELSE en[e]]

\* the commands queued by combat::spawn_projectile
SpawnProjectile(origin, dir, speed, lifetime, damage) ==
    IF dir = ZERO
    THEN <<>>
    ELSE <<Cmd("spawn", "Projectile", 0,
               [damage |-> damage, pos |-> origin, active |-> TRUE, dir |-> dir,
                speed |-> speed, lifetime |-> lifetime, from_player |-> TRUE])>>

\* the commands queued by combat::spawn_slash_vfx
SpawnSlashVfx(origin, dir) ==
    IF dir = ZERO
    THEN <<>>
    ELSE <<Cmd("spawn", "SlashVfx", 0, [active |-> TRUE, elapsed |-> 0])>>

(***************************************************************************)
(* The frame                                                                *)
(***************************************************************************)
Keys ==
    {"None", "Digit1", "Digit2", "Digit3", "Digit4", "Digit5", "Ctrl", "Esc"}

KeyIndex(k) ==
    CASE k = "Digit1" -> 0
      [] k = "Digit2" -> 1
      [] k = "Digit3" -> 2
      [] k = "Digit4" -> 3
      [] k = "Digit5" -> 4

\* The entity slots of the model suffice for what the frame can spawn.
Capacity(in) ==
    /\ (in.mouse /\ WeaponDef(equip).kind = "Ranged") => ActiveProjs # ProjIds
    /\ in.key \in {"Digit2", "Digit3", "Digit4", "Digit5"} => ActiveVfx # VfxIds

BeginFrame(Dts, Mice, Moves, Ks) ==
    /\ phase = "idle"
    /\ gameState = "InGame"
    /\ \E dt \in Dts, m \in Mice, mv \in Moves, k \in Ks :
          /\ input' = [dt |-> dt, mouse |-> m, move |-> mv, key |-> k]
          /\ Capacity(input')
    /\ phase' = "systems"
    /\ ran' = {}
    /\ UNCHANGED <<actorVars, skillVars, projs, coreVars, aiVars, stateVars, uiVars, commands>>

\* a system of the frame: it runs once, after BeginFrame and before EndFrame
Runs(name) ==
    /\ phase = "systems"
    /\ name \notin ran
    /\ ran' = ran \cup {name}
    /\ UNCHANGED <<phase, input>>

(***************************************************************************)
(* Systems of CombatPlugin: combat.rs                                       *)
(***************************************************************************)
\* a countdown without a floor
Tick_NoFloor(cooldown, dt) == IF cooldown > 0 THEN cooldown - dt ELSE cooldown

Tick(cooldown, dt) == IF cooldown > 0 THEN Max0(cooldown - dt) ELSE cooldown

TickAttackState ==
    /\ Runs("tick_attack_state")
    /\ attack' = IF player.alive
                 THEN [basic_cooldown |-> Tick(attack.basic_cooldown, input.dt),
                       slash_cooldown |-> Tick(attack.slash_cooldown, input.dt)]
                 ELSE attack
    /\ UNCHANGED <<player, equip, enemies, skillVars, projs, coreVars, aiVars, stateVars, uiVars, commands>>

\* the aim of a basic attack: the movement input, or up when there is none
AimDir(move) == IF move # ZERO THEN move ELSE VecY

\* handle_basic_attack without its cooldown gate
OnCooldown_Never(state) == FALSE

\* the cooldown gate of handle_basic_attack
OnCooldown(state) == state.basic_cooldown > 0

\* handle_basic_attack that forgets to start the cooldown
ResetCooldown_Keep(state, def) == state

\* the cooldown a basic attack leaves behind
ResetCooldown(state, def) == [state EXCEPT !.basic_cooldown = def.cooldown]

HandleBasicAttack ==
    /\ Runs("handle_basic_attack")
    /\ IF ~input.mouse \/ ~player.alive \/ OnCooldown(attack)
       THEN UNCHANGED <<attack, enemies, commands>>
       ELSE LET def == WeaponDef(equip)
                dir == AimDir(input.move)
            IN  /\ IF def.kind = "Melee"
                   THEN /\ enemies' = PerformMeleeAttack(player.pos, dir,
                                          def.melee_range, def.melee_width,
                                          MeleeDamage(def), enemies)
                        /\ UNCHANGED commands
                   ELSE /\ commands' = commands \o
                                SpawnProjectile(player.pos, dir,
                                    def.projectile_speed,
                                    def.projectile_lifetime, RangedDamage(def))
                        /\ UNCHANGED enemies
                /\ attack' = ResetCooldown(attack, def)
    /\ UNCHANGED <<player, equip, skillVars, projs, coreVars, aiVars, stateVars, uiVars>>

\* a death step that looks for a health of exactly zero
DeadEnemies_ExactlyZero(en) == {e \in EnemyIds : en[e].alive /\ en[e].hp = 0}

\* the enemies a death step removes
DeadEnemies(en) == {e \in EnemyIds : en[e].alive /\ en[e].hp <= 0}

RECURSIVE DespawnAll(_, _)
DespawnAll(kind, ids) ==
    IF ids = <<>> THEN <<>>
    ELSE <<Cmd("despawn", kind, Head(ids), 0)>> \o DespawnAll(kind, Tail(ids))

CleanupDeadEnemies ==
    /\ Runs("cleanup_dead_enemies")
    /\ commands' = commands \o DespawnAll("Enemy", SeqOf(DeadEnemies(enemies)))
    /\ UNCHANGED <<actorVars, skillVars, projs, coreVars, aiVars, stateVars, uiVars>>

HIT_RADIUS == 12

\* a unit vector in ten-thousandths: 0.7071 on a diagonal
UnitK(c, n2) == IF n2 = 1 THEN 10000 * c ELSE 7071 * c
\* c * k / 10000, rounded towards zero
MulK(c, k) == IF c < 0 THEN -((-c * k) \div 10000) ELSE (c * k) \div 10000
\* direction * speed * dt in hundredths: speed is per second, dt in ticks
Travel(dir, speed, dt) ==
    <<MulK(UnitK(dir[1], N2(dir)), speed * dt * 5),
      MulK(UnitK(dir[2], N2(dir)), speed * dt * 5)>>
Add(a, b) == <<a[1] + b[1], a[2] + b[2]>>

\* a distance test that everything passes
Within_Always(a, b, r) == TRUE

\* a.distance(b) <= r, r in world units
Within(a, b, r) ==
    LET dx == Abs(a[1] - b[1])
        dy == Abs(a[2] - b[2])
    IN  dx <= W(r) /\ dy <= W(r) /\ dx * dx + dy * dy <= W(r) * W(r)

\* update_projectiles with the faction test inverted
HitsEnemies_Swapped(proj) == ~proj.from_player

\* the branch of update_projectiles: a projectile of the player tests the
\* enemies, any other projectile
\* tests the player in combat_core.rs, nothing in combat.rs
HitsEnemies(proj) == proj.from_player

\* the first only of the enemies within the hit radius
InRadius_First(es, pos) ==
    LET near == {e \in EnemyIds :
                    es[e].alive /\ Within(es[e].pos, pos, HIT_RADIUS)}
    IN  IF near = {} THEN {} ELSE {Min(near)}

\* the enemies that the loop of update_projectiles finds within the hit
\* radius of the moved projectile: it visits every enemy
InRadius(es, pos) ==
    {e \in EnemyIds : es[e].alive /\ Within(es[e].pos, pos, HIT_RADIUS)}

\* a projectile that outlives every frame
Expired_Never(lifetime) == FALSE

\* the test made on the lifetime once dt is taken off it, before the
\* projectile is moved
Expired(lifetime) == lifetime <= 0

\* a step that leaves the projectile as it is
StepProjectile_Idle(w, p, dt) == w

\* one projectile of combat::update_projectiles, on w = [projs, enemies, cmds]
StepProjectile(w, p, dt) ==
    LET lifetime == w.projs[p].lifetime - dt
        aged == [w.projs EXCEPT ![p].lifetime = lifetime]
    IN  IF Expired(lifetime)
        THEN [w EXCEPT !.projs = aged,
                       !.cmds = @ \o <<Cmd("despawn", "Projectile", p, 0)>>]
        ELSE LET pos == Add(aged[p].pos, Travel(aged[p].dir, aged[p].speed, dt))
                 moved == [aged EXCEPT ![p].pos = pos]
                 hit == InRadius(w.enemies, pos)
             IN  IF HitsEnemies(moved[p])
                 THEN [enemies |-> [e \in EnemyIds |->
                            IF e \in hit
                            THEN [w.enemies[e] EXCEPT !.hp = @ - moved[p].damage]
                            ELSE w.enemies[e]],
                       projs |-> moved,
                       cmds |-> IF hit # {}
                                THEN w.cmds \o <<Cmd("despawn", "Projectile", p, 0)>>
                                ELSE w.cmds]
                 ELSE [w EXCEPT !.projs = moved]

RECURSIVE StepProjectiles(_, _, _)
StepProjectiles(w, ps, dt) ==
    IF ps = <<>> THEN w
    ELSE StepProjectiles(StepProjectile(w, Head(ps), dt), Tail(ps), dt)

UpdateProjectiles ==
    /\ Runs("update_projectiles")
    /\ LET w == StepProjectiles(
                    [enemies |-> enemies, projs |-> projs, cmds |-> commands],
                    SeqOf(ActiveProjs), input.dt)
       IN  /\ projs' = w.projs
           /\ enemies' = w.enemies
           /\ commands' = w.cmds
    /\ UNCHANGED <<player, attack, equip, skillVars, coreVars, aiVars, stateVars, uiVars>>

VFX_DURATION == 4

\* Timer::tick of a TimerMode::Once timer: the elapsed time stops at the duration
TickOnce(elapsed, dt) ==
    IF elapsed + dt >= VFX_DURATION THEN VFX_DURATION ELSE elapsed + dt

UpdateSlashVfx ==
    /\ Runs("update_slash_vfx")
    /\ vfx' = [v \in VfxIds |->
                 IF vfx[v].active
                 THEN [vfx[v] EXCEPT !.elapsed = TickOnce(@, input.dt)]
                 ELSE vfx[v]]
    /\ commands' = commands \o
            DespawnAll("SlashVfx",
                SeqOf({v \in VfxIds :
                          vfx'[v].active /\ vfx'[v].elapsed >= VFX_DURATION}))
    /\ UNCHANGED <<actorVars, dash, dashCard, cards, projs, coreVars, aiVars, stateVars, uiVars>>

(***************************************************************************)
(* Systems of SkillPlugin: skills.rs                                        *)
(***************************************************************************)
DASH_DURATION == 8
DASH_COOLDOWN == 200

\* a trigger that does not look at the cooldown
TriggerDashSkill_IgnoreCooldown(move, d) ==
    IF move = ZERO \/ ~player.alive \/ d.is_dashing
    THEN d
    ELSE [cooldown |-> DASH_COOLDOWN, is_dashing |-> TRUE,
          remaining |-> DASH_DURATION, direction |-> Normalize(move)]

TriggerDashSkill(move, d) ==
    IF move = ZERO \/ ~player.alive \/ d.is_dashing \/ d.cooldown > 0
    THEN d
    ELSE [cooldown |-> DASH_COOLDOWN, is_dashing |-> TRUE,
          remaining |-> DASH_DURATION, direction |-> Normalize(move)]

\* the sequence without its i-th element, the rest in order (Vec::remove)
RemoveAt(seq, i) ==
    [j \in 1..(Len(seq) - 1) |-> IF j < i THEN seq[j] ELSE seq[j + 1]]

\* a use that leaves the other cards where they are shown
Reposition_Stay(cs, i) == cs

\* the cards left after the one at index i (from 1) was used, moved to the
\* slots 1, 2, ... in the order of the query; the used card stays in the
\* world, where it was, until its despawn is applied
Reposition(cs, i) ==
    [j \in 1..Len(cs) |->
        IF j = i THEN cs[j]
        ELSE [cs[j] EXCEPT !.slot = IF j < i THEN j ELSE j - 1]]

UseNumberKeySkills ==
    /\ Runs("use_number_key_skills")
    /\ IF input.key \notin {"Digit1", "Digit2", "Digit3", "Digit4", "Digit5"}
       THEN UNCHANGED <<enemies, dash, cards, commands>>
       ELSE LET target_index == KeyIndex(input.key) IN
            IF target_index = 0
            THEN /\ dash' = IF dashCard # <<>> THEN TriggerDashSkill(input.move, dash)
                            ELSE dash
                 /\ UNCHANGED <<enemies, cards, commands>>
            ELSE IF target_index - 1 >= Len(cards) \/ ~player.alive
            THEN UNCHANGED <<enemies, dash, cards, commands>>
            ELSE LET dir == IF input.move # ZERO THEN input.move
                            ELSE FacingVec(player.facing)
                     used == cards[target_index]
                 IN  /\ enemies' = SkillSlash(player.pos, dir, enemies)
                     /\ commands' = commands \o SpawnSlashVfx(player.pos, dir)
                                        \o <<Cmd("despawn", "SkillCard", used.ent, 0)>>
                     /\ cards' = Reposition(cards, target_index)
                     /\ UNCHANGED dash
    /\ UNCHANGED <<player, attack, equip, dashCard, vfx, projs, coreVars, aiVars, stateVars, uiVars>>

UseDashSkillWithCtrl ==
    /\ Runs("use_dash_skill_with_ctrl")
    /\ dash' = IF input.key = "Ctrl" THEN TriggerDashSkill(input.move, dash)
               ELSE dash
    /\ UNCHANGED <<actorVars, dashCard, cards, vfx, projs, coreVars, aiVars, stateVars, uiVars, commands>>

MAX_SKILL_CARDS == 5
\* the duration of SkillSpawnTimer: 3.0 s
SPAWN_PERIOD == 60

\* the Entity that commands.spawn reserves when it is called: one that no
\* card in the world has
FreshCard(cs) ==
    Min({n \in 1..(Len(cs) + 1) : \A j \in 1..Len(cs) : cs[j].ent # n})

\* spawn_skill_card_at_slot: the queued spawn of one card
SpawnSkillCardAtSlot(slot_index, id) ==
    <<Cmd("spawn", "SkillCard", FreshCard(cards),
          [id |-> id, slot |-> slot_index])>>

\* a scheduler that spawns whatever the number of cards
OtherSkills_NoCap(non_dash_count) ==
    SpawnSkillCardAtSlot(1 + non_dash_count, "Slash")

\* a scheduler that counts the slots from 0
OtherSkills_FromSlot0(non_dash_count) ==
    IF non_dash_count >= MAX_SKILL_CARDS - 1 THEN <<>>
    ELSE SpawnSkillCardAtSlot(non_dash_count, "Slash")

RECURSIVE FillFrom(_)
\* a spawn for every slot from slot_index up to the last rotating slot
FillFrom(slot_index) ==
    IF slot_index > MAX_SKILL_CARDS - 1 THEN <<>>
    ELSE SpawnSkillCardAtSlot(slot_index, "Slash") \o FillFrom(slot_index + 1)

\* a scheduler that fills every empty rotating slot at once
OtherSkills_FillAll(non_dash_count) == FillFrom(1 + non_dash_count)

\* what spawn_other_skills queues when its timer has just finished and the
\* query counted non_dash_count cards without DashSkillCard
OtherSkills(non_dash_count) ==
    IF non_dash_count >= MAX_SKILL_CARDS - 1 THEN <<>>
    ELSE SpawnSkillCardAtSlot(1 + non_dash_count, "Slash")

\* Timer::tick of the repeating timer has just finished
JustFinished(elapsed, dt) == dt > 0 /\ elapsed + dt >= SPAWN_PERIOD

SpawnOtherSkills ==
    /\ Runs("spawn_other_skills")
    /\ spawnTimer' = (spawnTimer + input.dt) % SPAWN_PERIOD
    /\ commands' = IF JustFinished(spawnTimer, input.dt)
                   THEN commands \o OtherSkills(Len(cards))
                   ELSE commands
    /\ UNCHANGED <<actorVars, skillVars, projs, coreVars, aiVars, stateVars,
                   barMap, bars, coreBarMap, coreBars>>

\* OnExit(GameState::InGame) that spares the Dash card
CleanupSkillUi_KeepDash(w) == [w EXCEPT !.cards = <<>>]

\* cleanup_skill_ui, on OnExit(GameState::InGame): every SkillCard is despawned
CleanupSkillUi(w) == [w EXCEPT !.cards = <<>>, !.dashCard = <<>>]

\* setup_skill_ui, on OnEnter(GameState::InGame): the Dash card at slot 0
SetupSkillUi(w) == [w EXCEPT !.dashCard = Append(@, 0)]

\* the StateTransition schedule for a pending change from one state to another:
\* the OnExit systems of the old state, then the OnEnter systems of the new
Transition(w, from, to) ==
    IF to = "None" \/ to = from THEN w
    ELSE LET x == IF from = "InGame" THEN CleanupSkillUi(w) ELSE w
         IN  IF to = "InGame" THEN SetupSkillUi(x) ELSE x

(***************************************************************************)
(* Movement of the player: movement.rs                                      *)
(***************************************************************************)
PLAYER_SPEED == 200
DASH_MULTIPLIER == 3

\* PlayerHitbox::default().half
PlayerHalf == <<W(1), W(1)>>

\* WallColliders.aabbs of a level: a wall to the right and a wall to the left
\* of the corridor in which the player starts, each [center, half extents]
Walls ==
    <<[c |-> <<W(1040), 0>>, half |-> <<W(1000), W(1000)>>],
      [c |-> <<-W(1040), 0>>, half |-> <<W(1000), W(1000)>>]>>

AabbIntersects(a_center, a_half, b_center, b_half) ==
    /\ Abs(a_center[1] - b_center[1]) < a_half[1] + b_half[1]
    /\ Abs(a_center[2] - b_center[2]) < a_half[2] + b_half[2]

RECURSIVE PushBack(_, _, _, _)
\* one loop of move_with_walls over the walls ws, along the axis ax (1 or 2),
\* after the step d along that axis
PushBack(pos, d, ax, ws) ==
    IF ws = <<>> THEN pos
    ELSE LET wl == Head(ws)
             p == IF ~AabbIntersects(pos, PlayerHalf, wl.c, wl.half) THEN pos
                  ELSE IF d > 0
                  THEN [pos EXCEPT ![ax] = wl.c[ax] - wl.half[ax] - PlayerHalf[ax]]
                  ELSE IF d < 0
                  THEN [pos EXCEPT ![ax] = wl.c[ax] + wl.half[ax] + PlayerHalf[ax]]
                  ELSE pos
         IN  PushBack(p, d, ax, Tail(ws))

MoveWithWalls(start, delta, ws) ==
    IF ws = <<>> \/ delta = ZERO THEN Add(start, delta)
    ELSE LET px == PushBack(<<start[1] + delta[1], start[2]>>, delta[1], 1, ws)
         IN  PushBack(<<px[1], px[2] + delta[2]>>, delta[2], 2, ws)

\* the PlayerDirection of a movement
DirectionOf(move_dir) ==
    IF Abs(move_dir[1]) > Abs(move_dir[2])
    THEN IF move_dir[1] > 0 THEN "Right" ELSE "Left"
    ELSE IF move_dir[2] > 0 THEN "Up" ELSE "Down"

\* a movement step that lets a dash with no time left go on for a frame
DashTick_OneMore(d, dt) ==
    LET c == IF d.cooldown > 0 THEN Max0(d.cooldown - dt) ELSE d.cooldown
    IN  IF d.is_dashing
        THEN [d EXCEPT !.cooldown = c, !.remaining = @ - dt,
                       !.is_dashing = d.remaining - dt >= 0]
        ELSE [d EXCEPT !.cooldown = c]

\* the dash part of apply_player_movement: the cooldown, floored at zero, and
\* the remaining time of a dash, which ends when none is left
DashTick(d, dt) ==
    LET c == IF d.cooldown > 0 THEN Max0(d.cooldown - dt) ELSE d.cooldown
    IN  IF d.is_dashing
        THEN [d EXCEPT !.cooldown = c, !.remaining = @ - dt,
                       !.is_dashing = d.remaining - dt > 0]
        ELSE [d EXCEPT !.cooldown = c]

\* apply_player_movement; Shift (sprint) is not among the keys of the model
ApplyPlayerMovement ==
    /\ Runs("apply_player_movement")
    /\ IF ~player.alive
       THEN UNCHANGED <<player, dash>>
       ELSE LET d == DashTick(dash, input.dt)
                move_dir == IF d.is_dashing THEN d.direction ELSE input.move
                speed == IF d.is_dashing THEN PLAYER_SPEED * DASH_MULTIPLIER
                         ELSE PLAYER_SPEED
            IN  /\ dash' = d
                /\ player' =
                      IF move_dir = ZERO THEN player
                      ELSE [player EXCEPT
                              !.facing = DirectionOf(move_dir),
                              !.pos = MoveWithWalls(@,
                                          Travel(move_dir, speed, input.dt),
                                          Walls)]
    /\ UNCHANGED <<attack, equip, enemies, dashCard, cards, vfx, projs,
                   coreVars, aiVars, stateVars, uiVars, commands>>

(***************************************************************************)
(* Pause: input.rs                                                          *)
(***************************************************************************)
\* toggle_pause in a frame of InGame
TogglePause ==
    /\ Runs("toggle_pause")
    /\ nextState' = IF input.key = "Esc" THEN "Paused" ELSE nextState
    /\ UNCHANGED <<actorVars, skillVars, projs, coreVars, aiVars, gameState,
                   uiVars, commands>>

\* a frame of Paused in which Esc (toggle_pause) or the Resume button of the
\* pause menu asks for InGame, and the StateTransition that follows it
ResumeGame ==
    /\ phase = "idle"
    /\ gameState = "Paused"
    /\ LET w == Transition([dashCard |-> dashCard, cards |-> cards],
                           "Paused", "InGame")
       IN  /\ cards' = w.cards
           /\ dashCard' = w.dashCard
    /\ gameState' = "InGame"
    /\ UNCHANGED <<frameVars, actorVars, dash, vfx, projs, coreVars, aiVars,
                   nextState, uiVars, commands>>

(***************************************************************************)
(* Pools and systems of CombatCorePlugin: combat_core.rs                    *)
(***************************************************************************)
\* pool.free.push(entity)
Release(free, h) == Append(free, h)
\* a pop that leaves the handle in the free list
Acquire_Peek(free) == [ent |-> free[Len(free)], free |-> free]

\* pool.free.pop() on a free list that is not empty
Acquire(free) ==
    [ent |-> free[Len(free)], free |-> SubSeq(free, 1, Len(free) - 1)]

\* the entity with the bundle (Projectile, Sprite, Transform) inserted
WithProjectile(ent, d) ==
    [ent EXCEPT !.live = TRUE, !.hasProj = TRUE, !.dir = d.dir,
                !.speed = d.speed, !.lifetime = d.lifetime,
                !.damage = d.damage, !.from_player = d.from_player,
                !.sprite = TRUE, !.tf = TRUE, !.pos = d.pos]
\* the entity after remove::<Projectile>(): every other component stays
WithoutProjectile(ent) ==
    [ent EXCEPT !.hasProj = FALSE, !.dir = ZERO, !.speed = 0, !.lifetime = 0,
                !.damage = 0, !.from_player = FALSE]
\* the entity with the bundle (Sprite, Transform, SlashVfx) inserted
WithSlashVfx(ent, d) ==
    [ent EXCEPT !.live = TRUE, !.hasVfx = TRUE, !.elapsed = 0,
                !.sprite = TRUE, !.tf = TRUE, !.pos = d.pos]
\* the entity after remove::<SlashVfx>(): every other component stays
WithoutSlashVfx(ent) == [ent EXCEPT !.hasVfx = FALSE, !.elapsed = 0]

CoreProjs(es) == {h \in Handles : es[h].live /\ es[h].hasProj}
CoreVfx(es) == {h \in Handles : es[h].live /\ es[h].hasVfx}

\* combat_core::spawn_projectile: the free list left and the commands queued
CoreSpawnProjectile(free, usePool, origin, dir, speed, lifetime, damage, from_player) ==
    LET d == [damage |-> damage, pos |-> origin, dir |-> dir,
              speed |-> speed, lifetime |-> lifetime, from_player |-> from_player]
    IN  IF dir = ZERO
        THEN [cmds |-> <<>>, free |-> free]
        ELSE IF usePool /\ free # <<>>
        THEN [cmds |-> <<Cmd("insert", "CoreProjectile", Acquire(free).ent, d)>>,
              free |-> Acquire(free).free]
        ELSE [cmds |-> <<Cmd("spawn", "CoreProjectile", 0, d)>>, free |-> free]

\* combat_core::spawn_slash_vfx with Some(pool); dir is one of Directions or ZERO
CoreSpawnSlashVfx(free, origin, dir) ==
    LET center == Add(origin, <<MulK(UnitK(dir[1], N2(dir)), W(SLASH_LENGTH) \div 2),
                                MulK(UnitK(dir[2], N2(dir)), W(SLASH_LENGTH) \div 2)>>)
        d == [pos |-> center]
    IN  IF dir = ZERO
        THEN [cmds |-> <<>>, free |-> free]
        ELSE IF free # <<>>
        THEN [cmds |-> <<Cmd("insert", "CoreSlashVfx", Acquire(free).ent, d)>>,
              free |-> Acquire(free).free]
        ELSE [cmds |-> <<Cmd("spawn", "CoreSlashVfx", 0, d)>>, free |-> free]

\* one projectile of combat_core::update_projectiles, on
\* w = [ents, enemies, player, free, cmds]
CoreStepProjectile(w, h, dt) ==
    LET lifetime == w.ents[h].lifetime - dt
        aged == [w.ents EXCEPT ![h].lifetime = lifetime]
        retire == <<Cmd("remove", "CoreProjectile", h, 0)>>
    IN  IF Expired(lifetime)
        THEN [w EXCEPT !.ents = aged, !.cmds = @ \o retire,
                       !.free = Release(@, h)]
        ELSE LET pos == Add(aged[h].pos, Travel(aged[h].dir, aged[h].speed, dt))
                 moved == [aged EXCEPT ![h].pos = pos]
                 hit == InRadius(w.enemies, pos)
             IN  IF HitsEnemies(moved[h])
                 THEN [player |-> w.player,
                       enemies |-> [e \in EnemyIds |->
                            IF e \in hit
                            THEN [w.enemies[e] EXCEPT !.hp = @ - moved[h].damage]
                            ELSE w.enemies[e]],
                       ents |-> moved,
                       cmds |-> IF hit # {} THEN w.cmds \o retire ELSE w.cmds,
                       free |-> IF hit # {} THEN Release(w.free, h) ELSE w.free]
                 ELSE IF w.player.alive /\ Within(w.player.pos, pos, HIT_RADIUS)
                 THEN [w EXCEPT !.ents = moved,
                                !.player.hp = @ - moved[h].damage,
                                !.free = Release(@, h),
                                !.cmds = @ \o retire]
                 ELSE [w EXCEPT !.ents = moved]

RECURSIVE CoreStepProjectiles(_, _, _)
CoreStepProjectiles(w, hs, dt) ==
    IF hs = <<>> THEN w
    ELSE CoreStepProjectiles(CoreStepProjectile(w, Head(hs), dt), Tail(hs), dt)

CoreUpdateProjectiles ==
    /\ Runs("combat_core::update_projectiles")
    /\ LET w == CoreStepProjectiles(
                    [player |-> player, enemies |-> enemies, ents |-> ents,
                     cmds |-> commands, free |-> projFree],
                    SeqOf(CoreProjs(ents)), input.dt)
       IN  /\ ents' = w.ents
           /\ enemies' = w.enemies
           /\ player' = w.player
           /\ projFree' = w.free
           /\ commands' = w.cmds
    /\ UNCHANGED <<attack, equip, skillVars, projs, vfxFree, aiVars, stateVars, uiVars>>

RECURSIVE ReleaseAll(_, _)
ReleaseAll(free, hs) ==
    IF hs = <<>> THEN free ELSE ReleaseAll(Release(free, Head(hs)), Tail(hs))

RECURSIVE RemoveAll(_, _)
RemoveAll(kind, hs) ==
    IF hs = <<>> THEN <<>>
    ELSE <<Cmd("remove", kind, Head(hs), 0)>> \o RemoveAll(kind, Tail(hs))

CoreUpdateSlashVfx ==
    /\ Runs("combat_core::update_slash_vfx")
    /\ ents' = [h \in Handles |->
                  IF h \in CoreVfx(ents)
                  THEN [ents[h] EXCEPT !.elapsed = TickOnce(@, input.dt)]
                  ELSE ents[h]]
    /\ LET done == SeqOf({h \in CoreVfx(ents) : ents'[h].elapsed >= VFX_DURATION})
       IN  /\ commands' = commands \o RemoveAll("CoreSlashVfx", done)
           /\ vfxFree' = ReleaseAll(vfxFree, done)
    /\ UNCHANGED <<actorVars, skillVars, projs, projFree, aiVars, stateVars, uiVars>>

\* the handles no entity has taken yet, less those the queued spawns will take
FreshLeft ==
    Cardinality({h \in Handles : ~ents[h].live})
    - Cardinality({i \in 1..Len(commands) :
                      /\ commands[i].op = "spawn"
                      /\ commands[i].kind \in {"CoreProjectile", "CoreSlashVfx"}})

\* one handle is kept for the effect of enemy_cast_skill until it has one
VfxReserve ==
    IF \/ \E h \in Handles : ents[h].live /\ ~ents[h].hasProj /\ ents[h].tf
                              /\ (ents[h].hasVfx \/ \E i \in 1..Len(vfxFree) : vfxFree[i] = h)
       \/ \E i \in 1..Len(commands) :
             commands[i].op = "spawn" /\ commands[i].kind = "CoreSlashVfx"
    THEN 0 ELSE 1

\* A system that calls the public combat_core::spawn_projectile, at most once
\* a frame, with or without the pool. The repository holds no caller.
CallSpawnProjectile(Shots, Pools) ==
    /\ Runs("spawn_projectile")
    /\ \/ UNCHANGED <<projFree, commands>>
       \/ \E usePool \in Pools, a \in Shots :
             LET s == CoreSpawnProjectile(projFree, usePool, a.origin, a.dir,
                                         a.speed, a.lifetime, a.damage,
                                         a.from_player)
             IN  /\ (s.cmds # <<>> /\ s.cmds[1].op = "spawn")
                        => FreshLeft > VfxReserve
                 /\ projFree' = s.free
                 /\ commands' = commands \o s.cmds
    /\ UNCHANGED <<actorVars, skillVars, projs, ents, vfxFree, aiVars, stateVars, uiVars>>

(***************************************************************************)
(* Enemy systems: enemy_combat.rs, enemy.rs; player death: health.rs        *)
(***************************************************************************)
CAST_PERIOD == 24
CAST_RADIUS == 160
ENEMY_SLASH_LENGTH == 160
ENEMY_SLASH_DAMAGE == 25
CONTACT_RADIUS == 32
CONTACT_DAMAGE == 8
CONTACT_COOLDOWN == 16

\* the square of a.distance(b); the coordinates stay within 320.00
Dist2(a, b) ==
    (a[1] - b[1]) * (a[1] - b[1]) + (a[2] - b[2]) * (a[2] - b[2])

\* the enemy the loop of enemy_cast_skill keeps: the first, in query order,
\* of those nearest to the player; 0 when there is no enemy
NearestEnemy(en, pos) ==
    IF \A e \in EnemyIds : ~en[e].alive THEN 0
    ELSE Min({e \in EnemyIds :
                /\ en[e].alive
                /\ \A o \in EnemyIds :
                      en[o].alive => Dist2(en[e].pos, pos) <= Dist2(en[o].pos, pos)})

\* skill_slash_on_player as enemy_cast_skill calls it: dir is the unit vector
\* of player_pos - origin, so that d_forward is the distance and d_side is 0
SkillSlashOnPlayer(origin, dir, p) ==
    IF dir = ZERO THEN p
    ELSE IF Within(p.pos, origin, ENEMY_SLASH_LENGTH)
    THEN [p EXCEPT !.hp = @ - ENEMY_SLASH_DAMAGE * 10]
    ELSE p

\* SkillPool::next_non_dash: the list holds Slash alone; the counter wraps
NextNonDash(n) == [id |-> "Slash", next_other |-> (n + 1) % NextOtherWrap]

EnemyCastSkill ==
    /\ Runs("enemy_cast_skill")
    /\ castTimer' = (castTimer + input.dt) % CAST_PERIOD
    /\ LET e == NearestEnemy(enemies, player.pos) IN
       IF castTimer + input.dt < CAST_PERIOD \/ ~player.alive \/ e = 0
       THEN UNCHANGED <<player, nextOther, vfxFree, commands>>
       ELSE IF ~Within(enemies[e].pos, player.pos, CAST_RADIUS)
       THEN UNCHANGED <<player, nextOther, vfxFree, commands>>
       ELSE LET dir == Normalize(Sub(player.pos, enemies[e].pos))
                s == CoreSpawnSlashVfx(vfxFree, enemies[e].pos, dir)
            IN  /\ nextOther' = NextNonDash(nextOther).next_other
                /\ vfxFree' = s.free
                /\ commands' = commands \o s.cmds
                /\ player' = SkillSlashOnPlayer(enemies[e].pos, dir, player)
    /\ UNCHANGED <<attack, equip, enemies, skillVars, projs, ents, projFree, stateVars, uiVars>>

\* one enemy of apply_contact_damage_to_player, on w = [enemies, player]
ContactStep(w, e, dt) ==
    IF w.enemies[e].contact > 0
    THEN [w EXCEPT !.enemies[e].contact = @ - dt]
    ELSE IF Dist2(w.player.pos, w.enemies[e].pos) < W(CONTACT_RADIUS) * W(CONTACT_RADIUS)
    THEN [w EXCEPT !.player.hp = @ - CONTACT_DAMAGE * 10,
                   !.enemies[e].contact = CONTACT_COOLDOWN]
    ELSE w

RECURSIVE ContactSteps(_, _, _)
ContactSteps(w, es, dt) ==
    IF es = <<>> THEN w
    ELSE ContactSteps(ContactStep(w, Head(es), dt), Tail(es), dt)

ApplyContactDamageToPlayer ==
    /\ Runs("apply_contact_damage_to_player")
    /\ LET w == IF player.alive
                THEN ContactSteps([player |-> player, enemies |-> enemies],
                                  SeqOf(Alive), input.dt)
                ELSE [player |-> player, enemies |-> enemies]
       IN  /\ enemies' = w.enemies
           /\ player' = w.player
    /\ UNCHANGED <<attack, equip, skillVars, projs, coreVars, aiVars, stateVars, uiVars, commands>>

\* a death test that fires at half of the health
IsDead_Early(h) == 2 * h.hp <= h.max

\* health.current <= 0.0
IsDead(h) == h.hp <= 0

CheckPlayerDeath ==
    /\ Runs("check_player_death")
    /\ IF player.alive /\ IsDead(player)
       THEN /\ commands' = commands \o <<Cmd("despawn", "Player", 0, 0)>>
            /\ nextState' = "GameOver"
       ELSE UNCHANGED <<commands, nextState>>
    /\ UNCHANGED <<actorVars, skillVars, projs, coreVars, aiVars, gameState, uiVars>>

(***************************************************************************)
(* Health bars of the enemies: combat.rs and combat_core.rs                 *)
(***************************************************************************)
\* (current / max).clamp(0.0, 1.0), in thousandths
RatioOf(h) ==
    LET r == (h.hp * 1000) \div h.max
    IN  IF r < 0 THEN 0 ELSE IF r > 1000 THEN 1000 ELSE r

\* the position of e in the sequence seq, counted from 0
IndexIn(seq, e) == (CHOOSE i \in 1..Len(seq) : seq[i] = e) - 1

RECURSIVE BarSpawns(_, _)
\* the bars sync_enemy_hp_bars of combat.rs spawns for the owners es, each
\* with EnemyHpBar.ratio 1.0 and a fill of 100 %, at the row of its owner in
\* the sequence damaged
BarSpawns(es, damaged) ==
    IF es = <<>> THEN <<>>
    ELSE <<Cmd("spawn", "EnemyHpBar", Head(es),
               [live |-> TRUE, ratio |-> 1000, fill |-> 1000,
                row |-> IndexIn(damaged, Head(es))])>>
         \o BarSpawns(Tail(es), damaged)

\* sync_enemy_hp_bars of combat.rs
SyncEnemyHpBars ==
    /\ Runs("sync_enemy_hp_bars")
    /\ LET damaged == SeqOf({e \in EnemyIds :
                                /\ enemies[e].alive
                                /\ enemies[e].hp > 0
                                /\ enemies[e].hp < enemies[e].max})
           keep_set == {damaged[i] : i \in 1..Len(damaged)}
           created == SeqOf(keep_set \ barMap)
           inserted == barMap \cup keep_set
           stale == {owner \in inserted : owner \notin keep_set}
       IN  /\ barMap' = inserted \ stale
           /\ bars' = [e \in EnemyIds |->
                          IF e \in keep_set /\ bars[e].live
                          THEN [bars[e] EXCEPT
                                  !.row = IndexIn(damaged, e),
                                  !.fill = RatioOf(enemies[e])]
                          ELSE bars[e]]
           /\ commands' = commands \o BarSpawns(created, damaged)
                                   \o DespawnAll("EnemyHpBar", SeqOf(stale))
    /\ UNCHANGED <<actorVars, skillVars, projs, coreVars, aiVars, stateVars,
                   spawnTimer, coreBarMap, coreBars>>

\* format!("{:.0}", x) of a health x given in tenths: the nearest whole
\* number, a tie going to the even one
Fmt0(x) ==
    LET q == x \div 10
        r == x % 10
    IN  IF r > 5 \/ (r = 5 /\ q % 2 = 1) THEN q + 1 ELSE q

RECURSIVE CoreBarCmds(_, _, _)
\* what sync_enemy_hp_bars of combat_core.rs queues for the enemies es with
\* health left: a new bar for an owner without an entry in map, a new Text
\* for the bar of any other
CoreBarCmds(es, en, map) ==
    IF es = <<>> THEN <<>>
    ELSE LET e == Head(es)
             text == <<Fmt0(en[e].hp), Fmt0(en[e].max)>>
         IN  (IF e \notin map
              THEN <<Cmd("spawn", "CoreEnemyHpBar", e,
                         [live |-> TRUE,
                          ratio |-> (en[e].hp * 1000) \div en[e].max,
                          text |-> text])>>
              ELSE <<Cmd("insert", "CoreEnemyHpBar", e, text)>>)
             \o CoreBarCmds(Tail(es), en, map)

\* sync_enemy_hp_bars of combat_core.rs
CoreSyncEnemyHpBars ==
    /\ Runs("combat_core::sync_enemy_hp_bars")
    /\ LET seen == {e \in EnemyIds : enemies[e].alive /\ enemies[e].hp > 0}
           inserted == coreBarMap \cup seen
           to_remove == {enemy \in inserted : enemy \notin seen}
       IN  /\ coreBarMap' = inserted \ to_remove
           /\ commands' = commands
                            \o CoreBarCmds(SeqOf(seen), enemies, coreBarMap)
                            \o DespawnAll("CoreEnemyHpBar", SeqOf(to_remove))
    /\ UNCHANGED <<actorVars, skillVars, projs, coreVars, aiVars, stateVars,
                   spawnTimer, barMap, bars, coreBars>>

RECURSIVE DeathCmds(_, _)
\* what process_enemy_death of combat.rs queues for the dead enemies es: the
\* despawn of the bar of an owner with an entry in map, then the despawn of
\* the enemy
DeathCmds(es, map) ==
    IF es = <<>> THEN <<>>
    ELSE (IF Head(es) \in map
          THEN <<Cmd("despawn", "EnemyHpBar", Head(es), 0)>>
          ELSE <<>>)
         \o <<Cmd("despawn", "Enemy", Head(es), 0)>>
         \o DeathCmds(Tail(es), map)

\* process_enemy_death of combat.rs
ProcessEnemyDeath ==
    /\ Runs("process_enemy_death")
    /\ barMap' = barMap \ DeadEnemies(enemies)
    /\ commands' = commands \o DeathCmds(SeqOf(DeadEnemies(enemies)), barMap)
    /\ UNCHANGED <<actorVars, skillVars, projs, coreVars, aiVars, stateVars,
                   spawnTimer, bars, coreBarMap, coreBars>>

\* bar_map.0.retain(|enemy, _bar| existing.contains(enemy)): the entries kept,
\* and the commands queued for the others (none)
Retain(map, existing) ==
    [cmds |-> <<>>, map |-> map \cap existing]

\* process_enemy_death of combat_core.rs
CoreProcessEnemyDeath ==
    /\ Runs("combat_core::process_enemy_death")
    /\ LET existing == {e \in EnemyIds : enemies[e].alive}
       IN  /\ coreBarMap' = Retain(coreBarMap, existing).map
           /\ commands' = commands \o Retain(coreBarMap, existing).cmds
    /\ UNCHANGED <<actorVars, skillVars, projs, coreVars, aiVars, stateVars,
                   spawnTimer, barMap, bars, coreBars>>

(***************************************************************************)
(* Deferred commands                                                        *)
(***************************************************************************)
\* Table::swap_remove: the last row takes the place of the removed one
SwapRemove(seq, i) ==
    [j \in 1..(Len(seq) - 1) |-> IF j = i THEN seq[Len(seq)] ELSE seq[j]]

\* one command on the world
\* w = [enemies, projs, vfx, cards, dashCard, ents, player, bars, coreBars];
\* the bar of an owner is named by the owner
ApplyCmd(w, c) ==
    CASE c.op = "despawn" /\ c.kind = "Enemy" ->
            [w EXCEPT !.enemies[c.id] = NoEnemy]
      [] c.op = "despawn" /\ c.kind = "Projectile" ->
            [w EXCEPT !.projs[c.id] = NoProj]
      [] c.op = "despawn" /\ c.kind = "SlashVfx" ->
            [w EXCEPT !.vfx[c.id] = NoVfx]
      [] c.op = "despawn" /\ c.kind = "SkillCard" ->
            LET at == {j \in 1..Len(w.cards) : w.cards[j].ent = c.id}
            IN  IF at = {} THEN w
                ELSE [w EXCEPT !.cards = SwapRemove(@, Min(at))]
      [] c.op = "spawn" /\ c.kind = "SkillCard" ->
            IF c.data.id = "Dash"
            THEN [w EXCEPT !.dashCard = Append(@, c.data.slot)]
            ELSE [w EXCEPT !.cards =
                     Append(@, [id |-> c.data.id, slot |-> c.data.slot,
                                ent |-> c.id])]
      [] c.op = "despawn" /\ c.kind = "Player" ->
            [w EXCEPT !.player.alive = FALSE]
      [] c.op = "spawn" /\ c.kind = "Projectile" ->
            LET free == {p \in ProjIds : ~w.projs[p].active}
            IN  IF free = {} THEN w
                ELSE [w EXCEPT !.projs[Min(free)] = c.data]
      [] c.op = "spawn" /\ c.kind = "SlashVfx" ->
            LET free == {v \in VfxIds : ~w.vfx[v].active}
            IN  IF free = {} THEN w
                ELSE [w EXCEPT !.vfx[Min(free)] = c.data]
      [] c.op = "spawn" /\ c.kind = "CoreProjectile" ->
            LET fresh == {h \in Handles : ~w.ents[h].live}
            IN  IF fresh = {} THEN w
                ELSE [w EXCEPT !.ents[Min(fresh)] = WithProjectile(NoEnt, c.data)]
      [] c.op = "insert" /\ c.kind = "CoreProjectile" ->
            [w EXCEPT !.ents[c.id] = WithProjectile(@, c.data)]
      [] c.op = "remove" /\ c.kind = "CoreProjectile" ->
            [w EXCEPT !.ents[c.id] = WithoutProjectile(@)]
      [] c.op = "spawn" /\ c.kind = "CoreSlashVfx" ->
            LET fresh == {h \in Handles : ~w.ents[h].live}
            IN  IF fresh = {} THEN w
                ELSE [w EXCEPT !.ents[Min(fresh)] = WithSlashVfx(NoEnt, c.data)]
      [] c.op = "insert" /\ c.kind = "CoreSlashVfx" ->
            [w EXCEPT !.ents[c.id] = WithSlashVfx(@, c.data)]
      [] c.op = "remove" /\ c.kind = "CoreSlashVfx" ->
            [w EXCEPT !.ents[c.id] = WithoutSlashVfx(@)]
      [] c.op = "spawn" /\ c.kind = "EnemyHpBar" ->
            [w EXCEPT !.bars[c.id] = c.data]
      [] c.op = "despawn" /\ c.kind = "EnemyHpBar" ->
            [w EXCEPT !.bars[c.id] = NoBar]
      [] c.op = "spawn" /\ c.kind = "CoreEnemyHpBar" ->
            [w EXCEPT !.coreBars[c.id] = c.data]
      [] c.op = "insert" /\ c.kind = "CoreEnemyHpBar" ->
            IF w.coreBars[c.id].live
            THEN [w EXCEPT !.coreBars[c.id].text = c.data]
            ELSE w
      [] c.op = "despawn" /\ c.kind = "CoreEnemyHpBar" ->
            [w EXCEPT !.coreBars[c.id] = NoCoreBar]
      [] OTHER -> w

RECURSIVE ApplyCmds(_, _)
ApplyCmds(w, cs) ==
    IF cs = <<>> THEN w ELSE ApplyCmds(ApplyCmd(w, Head(cs)), Tail(cs))

\* the end of the Update schedule: the queued commands are applied in order;
\* then, before the next Update, the pending state transition
EndFrame(Systems) ==
    /\ phase = "systems"
    /\ ran = Systems
    /\ LET u == ApplyCmds([player |-> player, enemies |-> enemies, dashCard |-> dashCard,
                           cards |-> cards, vfx |-> vfx,
                           projs |-> projs, ents |-> ents,
                           bars |-> bars, coreBars |-> coreBars],
                          commands)
           w == Transition(u, gameState, nextState)
       IN  /\ enemies' = w.enemies
           /\ projs' = w.projs
           /\ vfx' = w.vfx
           /\ cards' = w.cards
           /\ dashCard' = w.dashCard
           /\ ents' = w.ents
           /\ player' = w.player
           /\ bars' = w.bars
           /\ coreBars' = w.coreBars
    /\ phase' = "idle"
    /\ input' = NoInput
    /\ ran' = {}
    /\ commands' = <<>>
    /\ gameState' = IF nextState = "None" THEN gameState ELSE nextState
    /\ nextState' = "None"
    /\ UNCHANGED <<attack, equip, dash, projFree, vfxFree, aiVars, spawnTimer,
                   barMap, coreBarMap>>

(***************************************************************************)
(* The player's attacks: basic attack, Slash card, cooldown tick, cleanup   *)
(***************************************************************************)
\* positions around a player at the origin, chosen on and next to the edges
\* of the melee box and of the Slash box
TestPoints ==
    {<<-(W(EPS) \div 2), 0>>, <<0, W(80)>>, <<W(30), W(30)>>,
     <<W(40), 0>>, <<W(40), W(20) + 1>>, <<W(300), 0>>}

SlashCards(n) == [j \in 1..n |-> [id |-> "Slash", slot |-> j, ent |-> j]]

InitWorld ==
    /\ phase = "idle"
    /\ input = NoInput
    /\ ran = {}
    /\ attack = [basic_cooldown |-> 0, slash_cooldown |-> 0]
    /\ dash = NoDash
    /\ dashCard = <<0>>
    /\ vfx = [v \in VfxIds |-> NoVfx]
    /\ projs = [p \in ProjIds |-> NoProj]
    /\ ents = [h \in Handles |-> NoEnt]
    /\ projFree = <<>>
    /\ vfxFree = <<>>
    /\ castTimer = 0
    /\ nextOther = 0
    /\ gameState = "InGame"
    /\ nextState = "None"
    /\ spawnTimer = 0
    /\ barMap = {}
    /\ bars = [e \in EnemyIds |-> NoBar]
    /\ coreBarMap = {}
    /\ coreBars = [e \in EnemyIds |-> NoCoreBar]
    /\ commands = <<>>

InitPlayer ==
    player = [alive |-> TRUE, pos |-> ZERO, hp |-> 1000, max |-> 1000,
              facing |-> "Down"]

\* Enemies anywhere on the test points; a basic attack and a Slash card are
\* resolved against them under every aim.
InitHitbox ==
    /\ InitWorld
    /\ InitPlayer
    /\ equip = "RustySword"
    /\ \E ps \in [EnemyIds -> TestPoints] :
          enemies = [e \in EnemyIds |-> NewEnemy(ps[e])]
    /\ cards = SlashCards(MaxCards)

HitboxSystems == {"handle_basic_attack", "use_number_key_skills"}

NextHitbox ==
    \/ BeginFrame({0}, BOOLEAN,
                  {<<-1, -1>>, <<-1, 0>>, <<-1, 1>>, <<0, -1>>, ZERO,
                   <<0, 1>>, <<1, -1>>, <<1, 0>>, <<1, 1>>},
                  {"None", "Digit2"})
    \/ HandleBasicAttack
    \/ UseNumberKeySkills
    \/ EndFrame(HitboxSystems)

SpecHitbox == InitHitbox /\ [][NextHitbox]_vars

\* One enemy inside the melee box of an attack to the right, the others out
\* of every box; any weapon; frames of several lengths.
InitAttack ==
    /\ InitWorld
    /\ InitPlayer
    /\ equip \in ItemIds
    /\ enemies = [e \in EnemyIds |->
                    NewEnemy(IF e = 1 THEN <<W(40), 0>> ELSE <<W(300), 0>>)]
    /\ cards = <<>>

AttackSystems ==
    {"tick_attack_state", "handle_basic_attack", "cleanup_dead_enemies"}

AttackDts == {0, 5, 12}

NextAttack ==
    \/ BeginFrame(AttackDts, BOOLEAN, {<<-1, 0>>, ZERO, <<1, 0>>}, {"None"})
    \/ TickAttackState
    \/ HandleBasicAttack
    \/ CleanupDeadEnemies
    \/ EndFrame(AttackSystems)

SpecAttack == InitAttack /\ [][NextAttack]_vars

(***************************************************************************)
(* Projectiles of both modules: the player's shots of combat.rs and the     *)
(* pooled projectiles of combat_core.rs.  tick_attack_state is left out:    *)
(* the player shoots once.                                                  *)
(***************************************************************************)
\* every actor in the world has health left: the frames explored are those
\* before a death step would remove an actor
Healthy ==
    /\ player.alive => player.hp > 0
    /\ \A e \in EnemyIds : enemies[e].alive => enemies[e].hp > 0

\* where a shot of the wand is after a frame of 0.6 s
ShotPoint == <<W(312), 0>>

InitProjectiles ==
    /\ InitWorld
    /\ InitPlayer
    /\ equip = "MagicWand"
    /\ enemies = [e \in EnemyIds |->
                    NewEnemy(IF e = 1 THEN ShotPoint ELSE <<0, W(300)>>)]
    /\ cards = <<>>

ProjectileSystems ==
    {"handle_basic_attack", "update_projectiles",
     "combat_core::update_projectiles", "spawn_projectile"}

ProjectileDts == {12}

Shot(origin, dir, speed, lifetime, damage, from_player) ==
    [damage |-> damage, dir |-> dir, speed |-> speed, lifetime |-> lifetime,
     from_player |-> from_player, origin |-> origin]

\* pooled projectiles of either faction, from the player towards the first
\* enemy and from that enemy towards the player
ProjectileShots ==
    {Shot(o, d, 520, 24, 500, fp) :
        o \in {ZERO}, d \in {<<1, 0>>}, fp \in BOOLEAN}
    \cup {Shot(o, d, 520, 24, 500, fp) :
        o \in {ShotPoint}, d \in {<<-1, 0>>}, fp \in BOOLEAN}

NextProjectiles ==
    \/ (Healthy /\ BeginFrame(ProjectileDts, BOOLEAN, {<<-1, 0>>, <<1, 0>>}, {"None"}))
    \/ HandleBasicAttack
    \/ UpdateProjectiles
    \/ CallSpawnProjectile(ProjectileShots, {TRUE})
    \/ CoreUpdateProjectiles
    \/ EndFrame(ProjectileSystems)

SpecProjectiles == InitProjectiles /\ [][NextProjectiles]_vars

(***************************************************************************)
(* The pools of combat_core.rs: pooled projectiles and the effects of the   *)
(* enemies' Slash                                                           *)
(***************************************************************************)
InitPool ==
    /\ InitWorld
    /\ InitPlayer
    /\ equip = "RustySword"
    /\ enemies = [e \in EnemyIds |->
                    NewEnemy(IF e = 1 THEN <<W(40), 0>> ELSE <<W(300), 0>>)]
    /\ cards = <<>>

PoolSystems ==
    {"combat_core::update_projectiles", "combat_core::update_slash_vfx",
     "spawn_projectile", "enemy_cast_skill"}

PoolDts == {4}

\* pooled projectiles of the player: one that hits the first enemy, one that
\* flies away and expires, one without a direction
PoolShots ==
    {Shot(ZERO, d, 200, 8, 500, TRUE) : d \in {<<-1, 0>>, ZERO, <<1, 0>>}}

NextPool ==
    \/ (Healthy /\ BeginFrame(PoolDts, {FALSE}, {ZERO}, {"None"}))
    \/ CallSpawnProjectile(PoolShots, BOOLEAN)
    \/ CoreUpdateProjectiles
    \/ CoreUpdateSlashVfx
    \/ EnemyCastSkill
    \/ EndFrame(PoolSystems)

SpecPool == InitPool /\ [][NextPool]_vars

(***************************************************************************)
(* The flight of the projectiles of both modules: expiry, movement and the  *)
(* hit test                                                                 *)
(***************************************************************************)
\* The enemies stand together where a shot of the wand is after 0.6 s, or the
\* first of them stands next to the player instead; any other is out of reach.
InitFlight ==
    /\ InitWorld
    /\ InitPlayer
    /\ equip = "MagicWand"
    /\ \E first \in {<<W(10), 0>>, ShotPoint} :
          enemies = [e \in EnemyIds |->
                        NewEnemy(IF e = 1 THEN first
                                 ELSE IF e = 2 THEN <<W(312), W(10)>>
                                 ELSE <<0, W(300)>>)]
    /\ cards = <<>>

FlightSystems ==
    {"handle_basic_attack", "update_projectiles",
     "combat_core::update_projectiles", "spawn_projectile"}

\* frames of 0.6 s and of 1.2 s: the lifetime of a shot of the wand is 1.2 s
FlightDts == {12, 24}

\* pooled projectiles of either faction that live 0.6 s or 1.2 s, from the
\* player towards the enemies and from the enemies towards the player
FlightShots ==
    {Shot(o, d, 520, l, 500, fp) :
        o \in {ZERO}, d \in {<<1, 0>>}, l \in {12, 24}, fp \in {TRUE}}
    \cup {Shot(o, d, 520, l, 500, fp) :
        o \in {ShotPoint}, d \in {<<-1, 0>>}, l \in {12, 24}, fp \in {FALSE}}

NextFlight ==
    \/ (Healthy /\ BeginFrame(FlightDts, BOOLEAN, {<<1, 0>>}, {"None"}))
    \/ HandleBasicAttack
    \/ UpdateProjectiles
    \/ CallSpawnProjectile(FlightShots, {TRUE})
    \/ CoreUpdateProjectiles
    \/ EndFrame(FlightSystems)

SpecFlight == InitFlight /\ [][NextFlight]_vars

\* The flight under fairness, of the one shot of the wand and of pooled
\* projectiles of the player that live 1.2 s: the schedule runs frame after
\* frame while every actor has health left, and every system of a frame runs.
NextFlightFair ==
    \/ (Healthy /\ BeginFrame(FlightDts, {TRUE}, {<<1, 0>>}, {"None"}))
    \/ HandleBasicAttack
    \/ UpdateProjectiles
    \/ CallSpawnProjectile({a \in FlightShots : a.from_player /\ a.lifetime = 24},
                           {TRUE})
    \/ CoreUpdateProjectiles
    \/ EndFrame(FlightSystems)

SpecFlightFair == InitFlight /\ [][NextFlightFair]_vars /\ WF_vars(NextFlightFair)

(***************************************************************************)
(* Health: every source of damage and the death steps                       *)
(***************************************************************************)
\* The first enemy touches the player and stands in the melee box and in the
\* Slash box; the second is where a shot of the wand is after one frame; any
\* other is out of reach. The player holds one Slash card.
InitHealth ==
    /\ InitWorld
    /\ InitPlayer
    /\ equip \in {"RustySword", "MagicWand"}
    /\ enemies = [e \in EnemyIds |->
                    NewEnemy(IF e = 1 THEN <<W(20), 0>>
                             ELSE IF e = 2 THEN ShotPoint ELSE <<0, W(300)>>)]
    /\ cards = SlashCards(1)

HealthSystems ==
    {"tick_attack_state", "handle_basic_attack", "cleanup_dead_enemies",
     "update_projectiles", "use_number_key_skills", "enemy_cast_skill",
     "apply_contact_damage_to_player", "check_player_death"}

HealthDts == {12}

NextHealth ==
    \/ BeginFrame(HealthDts, BOOLEAN, {<<1, 0>>}, {"None", "Digit2"})
    \/ TickAttackState
    \/ HandleBasicAttack
    \/ UseNumberKeySkills
    \/ UpdateProjectiles
    \/ EnemyCastSkill
    \/ ApplyContactDamageToPlayer
    \/ CleanupDeadEnemies
    \/ CheckPlayerDeath
    \/ EndFrame(HealthSystems)

SpecHealth == InitHealth /\ [][NextHealth]_vars

(***************************************************************************)
(* The skill bar: the scheduler of the rotating cards and their use         *)
(***************************************************************************)
\* the first enemy has taken fewer than MaxCasts Slashes
FewCasts == enemies[1].hp > 1000 - MaxCasts * SLASH_DAMAGE * 10

\* The first enemy stands in the Slash box of a cast to the right, the others
\* out of reach; the bar holds the Dash card alone.
InitCards ==
    /\ InitWorld
    /\ InitPlayer
    /\ equip = "RustySword"
    /\ enemies = [e \in EnemyIds |->
                    NewEnemy(IF e = 1 THEN <<W(40), 0>> ELSE <<0, W(300)>>)]
    /\ cards = <<>>

CardsSystems ==
    {"update_slash_vfx", "use_number_key_skills", "spawn_other_skills"}

\* half a period and a whole period of SkillSpawnTimer
CardsDts == {30, 60}

NextCards ==
    \/ (FewCasts /\ BeginFrame(CardsDts, {FALSE}, {<<1, 0>>},
                                {"None", "Digit2", "Digit3", "Digit5"}))
    \/ SpawnOtherSkills
    \/ UseNumberKeySkills
    \/ UpdateSlashVfx
    \/ EndFrame(CardsSystems)

SpecCards == InitCards /\ [][NextCards]_vars

\* The whole bar through pauses: every key, the scheduler, Esc and Resume; the
\* enemies are out of reach.
InitSkillBar ==
    /\ InitWorld
    /\ InitPlayer
    /\ equip = "RustySword"
    /\ enemies = [e \in EnemyIds |-> NewEnemy(<<0, W(300)>>)]
    /\ cards = <<>>

SkillBarSystems ==
    {"update_slash_vfx", "use_number_key_skills", "use_dash_skill_with_ctrl",
     "spawn_other_skills", "toggle_pause"}

SkillBarDts == {60}

NextSkillBar ==
    \/ BeginFrame(SkillBarDts, {FALSE}, {<<1, 0>>},
                  {"None", "Digit1", "Digit2", "Ctrl", "Esc"})
    \/ SpawnOtherSkills
    \/ UseNumberKeySkills
    \/ UseDashSkillWithCtrl
    \/ TogglePause
    \/ UpdateSlashVfx
    \/ ResumeGame
    \/ EndFrame(SkillBarSystems)

SpecSkillBar == InitSkillBar /\ [][NextSkillBar]_vars

(***************************************************************************)
(* The dash: its trigger by Ctrl or by the key of slot 0, and its course    *)
(***************************************************************************)
InitDash ==
    /\ InitWorld
    /\ InitPlayer
    /\ equip = "RustySword"
    /\ enemies = [e \in EnemyIds |-> NewEnemy(<<0, W(300)>>)]
    /\ cards = <<>>

DashSystems ==
    {"use_number_key_skills", "use_dash_skill_with_ctrl",
     "apply_player_movement"}

\* frames of 0.2 s and of 3.2 s
DashDts == {4, 64}

NextDash ==
    \/ BeginFrame(DashDts, {FALSE}, {<<-1, 0>>, ZERO, <<1, 0>>},
                  {"None", "Digit1", "Ctrl"})
    \/ ApplyPlayerMovement
    \/ UseNumberKeySkills
    \/ UseDashSkillWithCtrl
    \/ EndFrame(DashSystems)

SpecDash == InitDash /\ [][NextDash]_vars

\* The course of a dash under fairness: short frames (0.2 s) while a dash is
\* under way, so that it spans several of them, and long frames (5 s)
\* between dashes, so that the cooldown runs out in a few.
DashFrameDt == 4
IdleFrameDt == 100

NextDashFair ==
    \/ (dash.is_dashing
          /\ BeginFrame({DashFrameDt}, {FALSE}, {<<-1, 0>>, <<1, 0>>},
                        {"None", "Digit1", "Ctrl"}))
    \/ (~dash.is_dashing
          /\ BeginFrame({IdleFrameDt}, {FALSE}, {<<-1, 0>>, <<1, 0>>},
                        {"None", "Digit1", "Ctrl"}))
    \/ ApplyPlayerMovement
    \/ UseNumberKeySkills
    \/ UseDashSkillWithCtrl
    \/ EndFrame(DashSystems)

\* the frames of InGame keep coming: the app runs its schedule every frame,
\* and the schedule runs every system of the frame
SpecDashFair == InitDash /\ [][NextDashFair]_vars /\ WF_vars(NextDashFair)

(***************************************************************************)
(* The Slash of the enemies: its timer, its engagement radius, its effect   *)
(***************************************************************************)
\* places for an enemy around a player at the origin: near, on the
\* engagement radius, just beyond it, and far
CastPoints == {<<0, W(300)>>, <<W(40), 0>>, <<W(CAST_RADIUS), 0>>,
               <<W(CAST_RADIUS) + 1, 0>>}

\* Frames of InGame with or without a player (it is spawned once the level
\* has loaded) and with any enemies, each at one of the places.
InitCast ==
    /\ InitWorld
    /\ \E a \in BOOLEAN : player = [alive |-> a, pos |-> ZERO, hp |-> 1000,
                                    max |-> 1000, facing |-> "Down"]
    /\ equip = "RustySword"
    /\ \E ps \in [EnemyIds -> CastPoints \cup {ZERO}] :
          enemies = [e \in EnemyIds |->
                        IF ps[e] = ZERO THEN NoEnemy ELSE NewEnemy(ps[e])]
    /\ cards = <<>>

CastSystems ==
    {"combat_core::update_slash_vfx", "enemy_cast_skill", "check_player_death"}

\* half a period and a whole period of EnemyCastTimer
CastDts == {12, 24}

NextCast ==
    \/ BeginFrame(CastDts, {FALSE}, {ZERO}, {"None"})
    \/ EnemyCastSkill
    \/ CoreUpdateSlashVfx
    \/ CheckPlayerDeath
    \/ EndFrame(CastSystems)

SpecCast == InitCast /\ [][NextCast]_vars

(***************************************************************************)
(* Health bars: an enemy under the player's sword, and both reconciliation  *)
(* passes                                                                   *)
(***************************************************************************)
\* The first enemy stands in the melee box of an attack to the right, the
\* others out of reach.
InitBars ==
    /\ InitWorld
    /\ InitPlayer
    /\ equip = "RustySword"
    /\ enemies = [e \in EnemyIds |->
                    NewEnemy(IF e = 1 THEN <<W(40), 0>> ELSE <<0, W(300)>>)]
    /\ cards = <<>>

BarsSystems ==
    {"tick_attack_state", "handle_basic_attack", "cleanup_dead_enemies",
     "sync_enemy_hp_bars", "combat_core::sync_enemy_hp_bars",
     "process_enemy_death", "combat_core::process_enemy_death"}

BarsDts == {12}

NextBars ==
    \/ BeginFrame(BarsDts, BOOLEAN, {<<1, 0>>}, {"None"})
    \/ TickAttackState
    \/ HandleBasicAttack
    \/ CleanupDeadEnemies
    \/ SyncEnemyHpBars
    \/ CoreSyncEnemyHpBars
    \/ ProcessEnemyDeath
    \/ CoreProcessEnemyDeath
    \/ EndFrame(BarsSystems)

SpecBars == InitBars /\ [][NextBars]_vars

(***************************************************************************)
(* The death of the player: an enemy in contact that also casts Slash, and  *)
(* frames that keep coming                                                  *)
(***************************************************************************)
InitDeath ==
    /\ InitWorld
    /\ InitPlayer
    /\ equip = "RustySword"
    /\ enemies = [e \in EnemyIds |->
                    NewEnemy(IF e = 1 THEN <<W(20), 0>> ELSE <<0, W(300)>>)]
    /\ cards = <<>>

DeathSystems ==
    {"combat_core::update_slash_vfx", "enemy_cast_skill",
     "apply_contact_damage_to_player", "check_player_death"}

NextDeath ==
    \/ BeginFrame({CONTACT_COOLDOWN}, {FALSE}, {ZERO}, {"None"})
    \/ EnemyCastSkill
    \/ CoreUpdateSlashVfx
    \/ ApplyContactDamageToPlayer
    \/ CheckPlayerDeath
    \/ EndFrame(DeathSystems)

\* The schedule runs frame after frame, and every system of a frame runs.
SpecDeathFair == InitDeath /\ [][NextDeath]_vars /\ WF_vars(NextDeath)

(***************************************************************************)
(* The countdowns: the cooldowns of the basic attack, of the Slash and of   *)
(* the dash, and the contact cooldown of an enemy next to the player        *)
(***************************************************************************)
CooldownSystems ==
    {"tick_attack_state", "handle_basic_attack", "use_dash_skill_with_ctrl",
     "apply_player_movement", "apply_contact_damage_to_player"}

NextCooldowns ==
    \/ (Healthy /\ BeginFrame({32, 64}, BOOLEAN, {<<1, 0>>}, {"None", "Ctrl"}))
    \/ TickAttackState
    \/ HandleBasicAttack
    \/ UseDashSkillWithCtrl
    \/ ApplyPlayerMovement
    \/ ApplyContactDamageToPlayer
    \/ EndFrame(CooldownSystems)

SpecCooldowns == InitDeath /\ [][NextCooldowns]_vars

(***************************************************************************)
(* Properties                                                               *)
(***************************************************************************)
\* the step of the named system
StepOf(name) == name \notin ran /\ name \in ran'

\* a basic attack is requested and the player and the cooldown allow it
AttackReady == input.mouse /\ player.alive /\ attack.basic_cooldown = 0

\* the forward and side projections of t on the unit vector of f, squared and
\* multiplied by N2(f): 0 <= forward <= range and |side| <= width / 2
InHitBox(t, f, range, width) ==
    LET fw == t[1] * f[1] + t[2] * f[2]
        sd == t[2] * f[1] - t[1] * f[2]
        half == (100 * width) \div 2
    IN  /\ fw >= 0
        /\ fw * fw <= N2(f) * (100 * range) * (100 * range)
        /\ sd * sd <= N2(f) * half * half

Aim == IF input.move # ZERO THEN input.move ELSE <<0, 1>>

\* C1: a basic attack requested while the basic-attack cooldown is greater
\* than zero changes nothing: the cooldown keeps its value, no enemy's health
\* changes and no projectile is spawned or queued.
C1_AttackOnCooldownIsNoOp ==
    [][(StepOf("handle_basic_attack") /\ input.mouse /\ attack.basic_cooldown > 0)
        => /\ attack' = attack
           /\ enemies' = enemies
           /\ commands' = commands
           /\ projs' = projs]_vars

\* a basic attack was requested and has run while the cooldown was counting:
\* the cooldown is neither ready nor freshly reset, and the tick has not run
C1_Witness ==
    /\ "handle_basic_attack" \in ran
    /\ "tick_attack_state" \notin ran
    /\ input.mouse
    /\ attack.basic_cooldown > 0
    /\ attack.basic_cooldown < WeaponDef(equip).cooldown

\* C2: a basic melee attack made with the cooldown ready damages exactly the
\* enemies with 0 <= forward <= range and |side| <= width / 2 relative to the
\* attacker and the aim, all of them in the same attack, and leaves the health
\* of every other enemy alone; with the aim to the right the enemy at
\* (range / 2, 0) is hit and the one at (range / 2, width / 2 + 0.01) is not.
C2_MeleeHitsExactlyTheBox ==
    [][(StepOf("handle_basic_attack") /\ AttackReady
            /\ WeaponDef(equip).kind = "Melee")
        => LET def == WeaponDef(equip) IN
           \A e \in EnemyIds :
              /\ enemies[e].alive
                    /\ InHitBox(Sub(enemies[e].pos, player.pos), Aim,
                                def.melee_range, def.melee_width)
                 => enemies'[e].hp < enemies[e].hp
              /\ ~(enemies[e].alive
                    /\ InHitBox(Sub(enemies[e].pos, player.pos), Aim,
                                def.melee_range, def.melee_width))
                 => enemies'[e].hp = enemies[e].hp
              /\ (Aim = <<1, 0>> /\ enemies[e].alive
                    /\ Sub(enemies[e].pos, player.pos)
                         = <<50 * def.melee_range, 0>>)
                 => enemies'[e].hp < enemies[e].hp
              /\ (Aim = <<1, 0>> /\ enemies[e].alive
                    /\ Sub(enemies[e].pos, player.pos)
                         = <<50 * def.melee_range, 50 * def.melee_width + 1>>)
                 => enemies'[e].hp = enemies[e].hp]_vars

\* an attack to the right has hit the enemy at (range / 2, 0) and has missed
\* the one just outside the half width, in the frame of the attack
C2_Witness ==
    /\ "handle_basic_attack" \in ran
    /\ "use_number_key_skills" \notin ran
    /\ input.mouse
    /\ input.move = <<1, 0>>
    /\ \E a, b \in EnemyIds :
          /\ enemies[a].pos = <<4000, 0>>
          /\ enemies[a].hp = enemies[a].max - 300
          /\ enemies[b].pos = <<4000, 2001>>
          /\ enemies[b].hp = enemies[b].max

\* C3, as stated: a basic melee attack subtracts exactly the equipment's
\* configured damage from each hit target (damage 20 on 15 leaves -5).
C3_SubtractsConfiguredDamage ==
    [][(StepOf("handle_basic_attack") /\ AttackReady
            /\ WeaponDef(equip).kind = "Melee")
        => \A e \in EnemyIds :
              (enemies[e].alive
                 /\ InHitBox(Sub(enemies[e].pos, player.pos), Aim,
                             WeaponDef(equip).melee_range,
                             WeaponDef(equip).melee_width))
              => enemies'[e].hp = enemies[e].hp - 10 * WeaponDef(equip).damage]_vars

\* C3, amended: a basic melee attack subtracts exactly one and a half times
\* the equipment's configured damage from each hit target, with no clamping:
\* the health may go below zero (damage 20 on 10.0 leaves -20.0).
C3_SubtractsOneAndAHalfDamage ==
    [][(StepOf("handle_basic_attack") /\ AttackReady
            /\ WeaponDef(equip).kind = "Melee")
        => \A e \in EnemyIds :
              (enemies[e].alive
                 /\ InHitBox(Sub(enemies[e].pos, player.pos), Aim,
                             WeaponDef(equip).melee_range,
                             WeaponDef(equip).melee_width))
              => 2 * enemies'[e].hp
                    = 2 * enemies[e].hp - 3 * 10 * WeaponDef(equip).damage]_vars

\* a melee attack has taken a hit enemy below zero: 100.0 - 4 * 30.0
C3_Witness ==
    /\ "handle_basic_attack" \in ran
    /\ WeaponDef(equip).kind = "Melee"
    /\ \E e \in EnemyIds : enemies[e].alive /\ enemies[e].hp = -200

\* C4: a basic attack made with the cooldown ready sets the basic-attack
\* cooldown to the equipment's attack cooldown, also when no enemy is inside
\* the hit box, and in that case no enemy's health changes.
C4_MissStillResetsCooldown ==
    [][(StepOf("handle_basic_attack") /\ AttackReady)
        => /\ attack'.basic_cooldown = WeaponDef(equip).cooldown
           /\ (\A e \in EnemyIds :
                  ~(enemies[e].alive
                      /\ InHitBox(Sub(enemies[e].pos, player.pos), Aim,
                                  WeaponDef(equip).melee_range,
                                  WeaponDef(equip).melee_width)))
              => enemies' = enemies]_vars

\* a melee swing to the left has run with every enemy behind the attacker or
\* out of range: nobody is hurt and the cooldown is running
C4_Witness ==
    /\ "handle_basic_attack" \in ran
    /\ "tick_attack_state" \notin ran
    /\ input.mouse
    /\ input.move = <<-1, 0>>
    /\ WeaponDef(equip).kind = "Melee"
    /\ attack.basic_cooldown = WeaponDef(equip).cooldown
    /\ \A e \in EnemyIds : enemies[e].alive /\ enemies[e].hp = enemies[e].max

\* the target at (-EPS / 2, 0) relative to the origin and the forward axis f
BehindByHalfEps(t, f) ==
    /\ N2(f) = 1
    /\ 2 * (t[1] * f[1] + t[2] * f[2]) = -(100 * EPS)
    /\ t[2] * f[1] - t[1] * f[2] = 0

\* the direction of a Slash cast by the player
SlashAim == IF input.move # ZERO THEN input.move ELSE FacingVec(player.facing)

\* C5: an enemy at (-EPS / 2, 0) relative to the attacker's forward axis is
\* damaged by the Slash skill and is not damaged by a basic melee attack from
\* the same origin and direction.
C5_SlashToleranceOnly ==
    [][/\ (StepOf("use_number_key_skills") /\ input.key = "Digit2"
              /\ Len(cards) >= 1 /\ player.alive)
          => \A e \in EnemyIds :
                (enemies[e].alive
                    /\ BehindByHalfEps(Sub(enemies[e].pos, player.pos), SlashAim))
                => enemies'[e].hp = enemies[e].hp - 10 * SLASH_DAMAGE
       /\ (StepOf("handle_basic_attack") /\ AttackReady
              /\ WeaponDef(equip).kind = "Melee")
          => \A e \in EnemyIds :
                (enemies[e].alive
                    /\ BehindByHalfEps(Sub(enemies[e].pos, player.pos), Aim))
                => enemies'[e].hp = enemies[e].hp]_vars

\* in one frame with the aim to the right the Slash card was used and the
\* basic attack was made: the enemy 3.0 behind the player took the Slash
\* only, the enemy in front of the player took both
C5_Witness ==
    /\ ran = {"handle_basic_attack", "use_number_key_skills"}
    /\ input.mouse
    /\ input.key = "Digit2"
    /\ input.move = <<1, 0>>
    /\ attack.basic_cooldown = WeaponDef(equip).cooldown
    /\ \E i \in 1..Len(commands) : commands[i].kind = "SkillCard"
    /\ \E a, b \in EnemyIds :
          /\ enemies[a].pos = <<-300, 0>>
          /\ enemies[a].hp = enemies[a].max - 600
          /\ enemies[b].pos = <<4000, 0>>
          /\ enemies[b].hp = enemies[b].max - 900

\* the frame ends: the queued commands are applied
EndOfFrame == phase = "systems" /\ phase' = "idle"

\* a despawn of the actor is among the commands cs
Queued(cs, kind, id) ==
    \E i \in 1..Len(cs) :
        cs[i].op = "despawn" /\ cs[i].kind = kind /\ cs[i].id = id

InRange(h) == 0 <= h.hp /\ h.hp <= h.max

\* C6 as stated: for every sequence of damage applications, every actor's
\* Health has 0 <= current <= max once the frame with the owner's death step
\* is over.
C6_HealthInRangeAfterDeathStep ==
    (phase = "idle")
        => /\ player.alive => InRange(player)
           /\ \A e \in EnemyIds : enemies[e].alive => InRange(enemies[e])

\* C6: no step clamps current. For every sequence of damage applications the
\* health of an actor is at most max; a death step queues the removal of every
\* actor it finds with current <= 0, so that each actor it leaves in the world
\* has 0 < current <= max; the end of the frame removes the actors queued.
C6_DeathStepLeavesHealthInRange ==
    [][/\ \A e \in EnemyIds : enemies'[e].alive => enemies'[e].hp <= enemies'[e].max
       /\ player'.alive => player'.hp <= player'.max
       /\ StepOf("cleanup_dead_enemies")
          => \A e \in EnemyIds :
                (enemies'[e].alive /\ ~Queued(commands', "Enemy", e))
                => (0 < enemies'[e].hp /\ InRange(enemies'[e]))
       /\ StepOf("check_player_death")
          => ((player'.alive /\ ~Queued(commands', "Player", 0))
                => (0 < player'.hp /\ InRange(player')))
       /\ EndOfFrame
          => /\ \A e \in EnemyIds : Queued(commands, "Enemy", e) => ~enemies'[e].alive
             /\ Queued(commands, "Player", 0) => ~player'.alive]_vars

\* both death steps have run on actors below zero: an enemy and the player
\* are queued for removal, their health still negative
C6_Witness ==
    /\ {"cleanup_dead_enemies", "check_player_death"} \subseteq ran
    /\ \E e \in EnemyIds :
          enemies[e].alive /\ enemies[e].hp < 0 /\ Queued(commands, "Enemy", e)
    /\ player.alive /\ player.hp < 0 /\ Queued(commands, "Player", 0)

\* the positions, after the step, of the projectiles of one faction that the
\* stepping system moved and kept alive
FlyingAt(fp) ==
    IF StepOf("update_projectiles")
    THEN {projs'[p].pos : p \in {q \in ActiveProjs :
                                    projs[q].from_player = fp /\ projs'[q].lifetime > 0}}
    ELSE {ents'[h].pos : h \in {g \in CoreProjs(ents) :
                                    ents[g].from_player = fp /\ ents'[g].lifetime > 0}}

\* C7: in a frame of projectile simulation, of either module, an enemy loses
\* health only if a projectile with from_player = true is within the hit
\* radius, and the player loses health only if a projectile with from_player =
\* false is: no projectile reduces the health of its own faction.
C7_ProjectilesSpareTheirOwnFaction ==
    [][(StepOf("update_projectiles") \/ StepOf("combat_core::update_projectiles"))
        => /\ \A e \in EnemyIds :
                (enemies[e].alive /\ enemies'[e].hp < enemies[e].hp)
                => \E pos \in FlyingAt(TRUE) : Within(enemies[e].pos, pos, HIT_RADIUS)
           /\ (player.alive /\ player'.hp < player.hp)
                => \E pos \in FlyingAt(FALSE) : Within(player.pos, pos, HIT_RADIUS)]_vars

\* the pooled projectiles have been moved: one of the enemies' faction lies on
\* an enemy that has taken no damage, after another has hit the player
C7_Witness ==
    /\ "combat_core::update_projectiles" \in ran
    /\ \E h \in CoreProjs(ents), e \in EnemyIds :
          /\ ~ents[h].from_player
          /\ ents[h].lifetime > 0
          /\ enemies[e].alive
          /\ Within(enemies[e].pos, ents[h].pos, HIT_RADIUS)
          /\ enemies[e].hp = enemies[e].max
    /\ player.alive /\ player.hp < player.max

\* the projectiles the stepping system retires: it queues one command each
Retired == Len(commands') - Len(commands)

\* C8 as stated: every projectile retired by a frame of projectile simulation,
\* by expiry or by a hit, has its handle pushed on ProjectilePool.free.
C8_RetiredProjectilesAreReleased ==
    [][(StepOf("update_projectiles") \/ StepOf("combat_core::update_projectiles"))
        => Len(projFree') = Len(projFree) + Retired]_vars

\* the members of a free list
Members(free) == {free[i] : i \in 1..Len(free)}

NoDuplicates(free) == Cardinality(Members(free)) = Len(free)

\* no handle of a free list carries a Projectile or a SlashVfx, and none is
\* listed twice
PoolsDisjointFromWorld ==
    /\ \A h \in Members(projFree) \cup Members(vfxFree) :
          ~ents[h].hasProj /\ ~ents[h].hasVfx
    /\ NoDuplicates(projFree \o vfxFree)

\* C9 as stated: in every reachable state no handle of ProjectilePool.free or
\* VfxPool.free carries a Projectile or SlashVfx, and none is listed twice.
C9_HandleInAtMostOnePlace == PoolsDisjointFromWorld

\* C9: between frames, when the commands of the frame have been applied, no
\* handle of ProjectilePool.free or VfxPool.free carries a Projectile or
\* SlashVfx, and none is listed twice. Within the frame that retires it, the
\* handle is in the free list while the component is still on it.
C9_HandleInAtMostOnePlaceBetweenFrames ==
    (phase = "idle") => PoolsDisjointFromWorld

\* between frames both pools hold a released handle, and the projectile pool
\* has handed one out before
C9_Witness ==
    /\ phase = "idle"
    /\ projFree # <<>>
    /\ vfxFree # <<>>
    /\ ents[projFree[1]].pos # ZERO

\* the handle carries no component
Stripped(ent) ==
    /\ ~ent.hasProj
    /\ ~ent.hasVfx
    /\ ~ent.sprite
    /\ ~ent.tf
    /\ ent.pos = ZERO

\* C10 as stated: a handle released and acquired again is the same handle,
\* and a released handle carries no component of its prior use (position,
\* sprite, projectile or effect data), at the latest when the commands of the
\* frame that released it have been applied.
C10_ReleasedHandleIsStripped ==
    /\ \A h \in Handles :
          /\ Acquire(Release(projFree, h)).ent = h
          /\ Acquire(Release(projFree, h)).free = projFree
    /\ (phase = "idle")
          => \A h \in Members(projFree) \cup Members(vfxFree) : Stripped(ents[h])

(***************************************************************************)
(* The skill bar                                                            *)
(***************************************************************************)
\* C11: while the game is InGame there is exactly one Dash card and it is at
\* slot 0, whatever keys were pressed (1-5, Ctrl), however often the
\* scheduler ticked or fired and however often the game was paused and
\* resumed.
C11_ExactlyOneDashCardAtSlot0 == gameState = "InGame" => dashCard = <<0>>

\* between two frames of InGame: a dash was activated, the scheduler has
\* filled two slots, and the Dash card is there
C11_Witness ==
    /\ phase = "idle"
    /\ gameState = "InGame"
    /\ dash.is_dashing
    /\ Len(cards) >= 2
    /\ dashCard = <<0>>

\* the spawns of skill cards among the commands cs
CardSpawns(cs) ==
    {i \in 1..Len(cs) : cs[i].op = "spawn" /\ cs[i].kind = "SkillCard"}

\* the rotating slots
RotatingSlots == 1..(MAX_SKILL_CARDS - 1)

\* the slots at which the cards cs are shown
SlotsOf(cs) == {cs[j].slot : j \in 1..Len(cs)}

\* spawn_other_skills has run in this frame and its timer has just finished:
\* the repeating timer wrapped, so that less than the frame's delta is left
FiredThisFrame ==
    /\ phase = "systems"
    /\ "spawn_other_skills" \in ran
    /\ input.dt > 0
    /\ spawnTimer < input.dt

\* C12: after any sequence of timer firings and activations there are never
\* more than MAX_SKILL_CARDS - 1 = 4 rotating cards, and never more than 5
\* skill cards in all.
C12_AtMostFourRotatingCards ==
    /\ Len(cards) <= MAX_SKILL_CARDS - 1
    /\ Len(cards) + Len(dashCard) <= MAX_SKILL_CARDS

\* the timer has fired on a full bar and nothing was queued
C12_Witness ==
    /\ FiredThisFrame
    /\ Len(cards) = MAX_SKILL_CARDS - 1
    /\ CardSpawns(commands) = {}

\* C13 as stated: when the frame in which the timer fired is over, every
\* rotating slot holds a card.
C13_FiringFillsEveryEmptySlot ==
    [][(EndOfFrame /\ FiredThisFrame) => RotatingSlots \subseteq SlotsOf(cards')]_vars

\* C13: a firing of the timer queues one Slash card, at slot 1 + the number
\* of rotating cards, when fewer than MAX_SKILL_CARDS - 1 of them exist, and
\* nothing otherwise; a run of the scheduler without a firing queues nothing;
\* so a frame adds at most one card.
C13_FiringAddsOneCard ==
    [][/\ StepOf("spawn_other_skills") =>
            commands' = commands \o
                (IF JustFinished(spawnTimer, input.dt)
                    /\ Len(cards) < MAX_SKILL_CARDS - 1
                 THEN <<Cmd("spawn", "SkillCard", FreshCard(cards),
                            [id |-> "Slash", slot |-> 1 + Len(cards)])>>
                 ELSE <<>>)
       /\ EndOfFrame => Len(cards') <= Len(cards) + 1]_vars

\* the timer has fired on a bar with one rotating card: one spawn is queued,
\* for slot 2, and the slots 3 and 4 are left empty
C13_Witness ==
    /\ FiredThisFrame
    /\ Len(cards) = 1
    /\ \E i \in 1..Len(commands) :
          /\ CardSpawns(commands) = {i}
          /\ commands[i].data.slot = 2

\* C14: with no rotating card in the bar, a frame in which the timer fires
\* ends with exactly one rotating card, at slot 1, whose id is the one the
\* round robin of the non-Dash pool gives next; the Dash card is as before.
C14_FirstFiringAddsOneCardAtSlot1 ==
    [][(EndOfFrame /\ FiredThisFrame /\ cards = <<>>) =>
          /\ Len(cards') = 1
          /\ cards'[1].slot = 1
          /\ cards'[1].id = NextNonDash(nextOther).id
          /\ cards'[1].id # "Dash"
          /\ dashCard' = dashCard]_vars

\* the timer has fired on a bar without rotating cards and the spawn of the
\* card for slot 1 is queued
C14_Witness ==
    /\ FiredThisFrame
    /\ cards = <<>>
    /\ \E i \in 1..Len(commands) :
          /\ CardSpawns(commands) = {i}
          /\ commands[i].data = [id |-> "Slash", slot |-> 1]

\* the keys of the rotating slots
SlotKeys == {"Digit2", "Digit3", "Digit4", "Digit5"}

\* the step of use_number_key_skills on the key of a rotating slot
Activation == StepOf("use_number_key_skills") /\ input.key \in SlotKeys

\* the activation does nothing
NoOp == UNCHANGED <<enemies, cards, dash, commands>>

\* the activation casts Slash along the movement input
Cast ==
    /\ enemies' = SkillSlash(player.pos, input.move, enemies)
    /\ \E i \in (1..Len(commands')) \ (1..Len(commands)) :
          commands'[i].op = "spawn" /\ commands'[i].kind = "SlashVfx"

\* C15 as stated: an activation of slot k with a card shown at slot k casts
\* and removes that card, keeps every other card as it is and leaves slot k
\* empty; with no card shown at slot k it does nothing.
C15_ActivatedSlotIsLeftEmpty ==
    [][(Activation /\ player.alive) =>
          LET k == KeyIndex(input.key)
              at == {j \in 1..Len(cards) : cards[j].slot = k}
          IN  IF at = {} THEN NoOp
              ELSE \E j \in at :
                      /\ Cast
                      /\ Queued(commands', "SkillCard", cards[j].ent)
                      /\ \A i \in (1..Len(cards)) \ {j} :
                            cards'[i] = cards[i] /\ cards'[i].slot # k]_vars

\* C15: the key of slot k acts on the k-th rotating card of the query.  With
\* at least k rotating cards (and a player) Slash is cast, the removal of
\* exactly that card is queued, and every other card is kept and moved at
\* once to the slots 1, 2, ... in query order, so that the card after the
\* used one takes slot k and the slot that falls empty is the last; with
\* fewer than k rotating cards the activation does nothing.  When the frame
\* is over the used card is gone and the others are there.
C15_ActivationRemovesTheKthCard ==
    [][/\ (Activation /\ player.alive) =>
            LET k == KeyIndex(input.key) IN
            IF k > Len(cards) THEN NoOp
            ELSE /\ Cast
                 /\ commands'[Len(commands')] =
                        Cmd("despawn", "SkillCard", cards[k].ent, 0)
                 /\ \A i \in 1..Len(commands') :
                       Queued(<<commands'[i]>>, "SkillCard", commands'[i].id)
                           => i = Len(commands')
                 /\ Len(cards') = Len(cards)
                 /\ cards'[k] = cards[k]
                 /\ \A i \in (1..Len(cards)) \ {k} :
                       /\ cards'[i].ent = cards[i].ent
                       /\ cards'[i].id = cards[i].id
                       /\ cards'[i].slot = IF i < k THEN i ELSE i - 1
       /\ EndOfFrame =>
            \A j \in 1..Len(cards) :
                (\E i \in 1..Len(cards') : cards'[i] = cards[j])
                    <=> ~Queued(commands, "SkillCard", cards[j].ent)]_vars

\* slot 2 was activated on a bar of three cards: the removal of the second
\* card is queued and the third card has moved from slot 3 to slot 2
C15_Witness ==
    /\ phase = "systems"
    /\ "use_number_key_skills" \in ran
    /\ input.key = "Digit3"
    /\ Len(cards) >= 3
    /\ Queued(commands, "SkillCard", cards[2].ent)
    /\ cards[3].slot = 2

(***************************************************************************)
(* The dash                                                                 *)
(***************************************************************************)
\* a step that calls trigger_dash_skill: Ctrl, or the key of slot 0 with the
\* Dash card in the bar
TriggerStep ==
    \/ StepOf("use_dash_skill_with_ctrl") /\ input.key = "Ctrl"
    \/ StepOf("use_number_key_skills") /\ input.key = "Digit1"
          /\ dashCard # <<>>

\* C16: a dash activation succeeds exactly when the movement intent is not
\* zero, the player is not dashing and the dash cooldown is zero; it then
\* sets is_dashing, remaining = DASH_DURATION, cooldown = DASH_COOLDOWN and
\* direction = the normalized intent; in every other case the dash state is
\* left as it is.
C16_DashTriggersExactlyWhenReady ==
    [][(TriggerStep /\ player.alive) =>
          dash' = IF input.move # ZERO /\ ~dash.is_dashing /\ dash.cooldown = 0
                  THEN [cooldown |-> DASH_COOLDOWN, is_dashing |-> TRUE,
                        remaining |-> DASH_DURATION,
                        direction |-> Normalize(input.move)]
                  ELSE dash]_vars

\* Ctrl has just started a dash to the left, after the player had moved
C16_Witness ==
    /\ phase = "systems"
    /\ ran = {"use_dash_skill_with_ctrl"}
    /\ input.key = "Ctrl"
    /\ input.move = <<-1, 0>>
    /\ player.pos # ZERO
    /\ dash = [cooldown |-> DASH_COOLDOWN, is_dashing |-> TRUE,
               remaining |-> DASH_DURATION, direction |-> <<-1, 0>>]

\* C17: a dash runs to completion.  While is_dashing holds there is time
\* left; no step of a dash changes its direction, gives it more time or
\* starts its cooldown again, and the step that ends it is the one that
\* leaves no time; and while the frames of InGame keep coming, with dt > 0,
\* every dash ends.
C17_DashRunsToCompletion ==
    /\ [](dash.is_dashing => dash.remaining > 0)
    /\ [][dash.is_dashing =>
            /\ dash'.direction = dash.direction
            /\ dash'.remaining <= dash.remaining
            /\ dash'.cooldown <= dash.cooldown
            /\ dash'.is_dashing <=> dash'.remaining > 0]_vars
    /\ (dash.is_dashing ~> ~dash.is_dashing)

\* half of a dash to the right is over and the frame, in which Ctrl was
\* pressed with an intent to the left, has run every system: the dash goes on
C17_Witness ==
    /\ phase = "systems"
    /\ ran = DashSystems
    /\ input.key = "Ctrl"
    /\ input.move = <<-1, 0>>
    /\ dash.is_dashing
    /\ dash.direction = <<1, 0>>
    /\ dash.remaining = DASH_DURATION - DashFrameDt

(***************************************************************************)
(* The Slash of the enemies                                                 *)
(***************************************************************************)
\* the cast timer finishes in the step of enemy_cast_skill
CastTimerFires ==
    StepOf("enemy_cast_skill") /\ castTimer + input.dt >= CAST_PERIOD

\* no enemy is at a distance of CAST_RADIUS or less from the player
NoEnemyInRadius ==
    \A e \in Alive :
        Dist2(enemies[e].pos, player.pos) > W(CAST_RADIUS) * W(CAST_RADIUS)

\* C18: when the cast timer fires and there is no player, no enemy, or no
\* enemy within the engagement radius (160) of the player, the tick is
\* skipped: the player's health, the position of the round robin, the VFX
\* pool and its entities are as before and nothing is queued.
C18_CastOutOfRadiusIsSkipped ==
    [][(CastTimerFires /\ (~player.alive \/ NoEnemyInRadius)) =>
          UNCHANGED <<player, nextOther, vfxFree, ents, commands>>]_vars

\* the timer has fired with the only enemy just beyond the radius: the
\* player is at full health, the round robin has not moved, nothing is queued
C18_Witness ==
    /\ phase = "systems"
    /\ ran = {"enemy_cast_skill"}
    /\ castTimer < input.dt
    /\ player.alive
    /\ player.hp = player.max
    /\ Alive = {1}
    /\ enemies[1].pos = <<W(CAST_RADIUS) + 1, 0>>
    /\ nextOther = 0
    /\ vfxFree = <<>>
    /\ commands = <<>>


(***************************************************************************)
(* Health bars                                                              *)
(***************************************************************************)
\* the tracked enemies that are damaged but alive
DamagedEnemies(en) ==
    {e \in EnemyIds : en[e].alive /\ en[e].hp > 0 /\ en[e].hp < en[e].max}

\* the tracked enemies at full health
FullHealthEnemies(en) ==
    {e \in EnemyIds : en[e].alive /\ en[e].hp = en[e].max}

\* the bars of kind queued for spawning for owner e by this step
BarSpawnedFor(kind, e) ==
    {i \in (Len(commands) + 1)..Len(commands') :
        /\ commands'[i].op = "spawn"
        /\ commands'[i].kind = kind
        /\ commands'[i].id = e}

\* C19: after every health-bar reconciliation pass, of combat.rs and of
\* combat_core.rs alike, the keys of the pass's owner-to-indicator mapping are
\* exactly the tracked enemies with 0 < current < max.
C19_MapKeysAreTheDamagedEnemies ==
    [][/\ StepOf("sync_enemy_hp_bars")
          => barMap' = DamagedEnemies(enemies)
       /\ StepOf("combat_core::sync_enemy_hp_bars")
          => coreBarMap' = DamagedEnemies(enemies)]_vars

\* C20: the life cycle of a health bar, for both reconciliation passes: a
\* pass leaves an enemy at current = max without an indicator and without a
\* mapping entry, and for a damaged enemy without an entry it creates an
\* indicator whose ratio is current / max.
C20_HpBarLifecycle ==
    [][\A e \in EnemyIds :
         /\ StepOf("sync_enemy_hp_bars")
            => /\ e \in FullHealthEnemies(enemies)
                  => (e \notin barMap' /\ BarSpawnedFor("EnemyHpBar", e) = {})
               /\ (e \in DamagedEnemies(enemies) /\ e \notin barMap)
                  => /\ e \in barMap'
                     /\ BarSpawnedFor("EnemyHpBar", e) # {}
                     /\ \A i \in BarSpawnedFor("EnemyHpBar", e) :
                           /\ commands'[i].data.ratio = RatioOf(enemies[e])
                           /\ commands'[i].data.fill = RatioOf(enemies[e])
         /\ StepOf("combat_core::sync_enemy_hp_bars")
            => /\ e \in FullHealthEnemies(enemies)
                  => /\ e \notin coreBarMap'
                     /\ BarSpawnedFor("CoreEnemyHpBar", e) = {}
               /\ (e \in DamagedEnemies(enemies) /\ e \notin coreBarMap)
                  => /\ e \in coreBarMap'
                     /\ BarSpawnedFor("CoreEnemyHpBar", e) # {}
                     /\ \A i \in BarSpawnedFor("CoreEnemyHpBar", e) :
                           commands'[i].data.ratio = RatioOf(enemies[e])]_vars

(***************************************************************************)
(* Death of an enemy                                                        *)
(***************************************************************************)
\* the owners of an indicator that no mapping entry leads to any more
Orphans == {e \in EnemyIds : bars[e].live /\ e \notin barMap}
CoreOrphans == {e \in EnemyIds : coreBars[e].live /\ e \notin coreBarMap}

\* C21: once the commands of a frame are applied, no indicator is orphaned,
\* in whichever order the bar-sync and death-processing systems ran: every
\* indicator entity in the world, of combat.rs and of combat_core.rs, has the
\* mapping entry of its owner, through which a later pass removes it.
C21_NoOrphanedIndicator ==
    phase = "idle" => (Orphans = {} /\ CoreOrphans = {})

(***************************************************************************)
(* Order of the cooldown tick and the basic attack                          *)
(***************************************************************************)
\* the basic-attack cooldown of this frame once tick_attack_state has run
TickedCooldown ==
    IF "tick_attack_state" \in ran THEN attack.basic_cooldown
    ELSE Tick(attack.basic_cooldown, input.dt)

\* C22: tick-then-act: a basic attack requested in a frame whose cooldown
\* tick brings the basic-attack cooldown to zero (or finds it at zero) is made
\* in that frame, whenever handle_basic_attack runs: it starts the weapon's
\* cooldown.
C22_TickThenAct ==
    [][(StepOf("handle_basic_attack") /\ input.mouse /\ player.alive
            /\ TickedCooldown = 0)
        => attack'.basic_cooldown = WeaponDef(equip).cooldown]_vars

NewCmds == SubSeq(commands', Len(commands) + 1, Len(commands'))

\* where the step takes a projectile that it moves
MovedTo(proj) == Add(proj.pos, Travel(proj.dir, proj.speed, input.dt))

\* the step leaves the projectile some lifetime
Outlives(proj) == proj.lifetime - input.dt > 0

\* the projectiles of combat.rs that the step moves onto the enemy
Hitters(e) ==
    {p \in ActiveProjs :
        /\ projs[p].from_player
        /\ Outlives(projs[p])
        /\ Within(enemies[e].pos, MovedTo(projs[p]), HIT_RADIUS)}

\* the pooled projectiles that the step moves onto the enemy
CoreHitters(e) ==
    {h \in CoreProjs(ents) :
        /\ ents[h].from_player
        /\ Outlives(ents[h])
        /\ Within(enemies[e].pos, MovedTo(ents[h]), HIT_RADIUS)}

\* the pooled projectiles that the step moves onto the player
CorePlayerHitters ==
    {h \in CoreProjs(ents) :
        /\ ~ents[h].from_player
        /\ Outlives(ents[h])
        /\ Within(player.pos, MovedTo(ents[h]), HIT_RADIUS)}

\* the step retires the pooled projectile: its Projectile component is to be
\* removed and its handle is released
CoreRetired(h) ==
    /\ \E i \in 1..Len(NewCmds) :
          NewCmds[i] = Cmd("remove", "CoreProjectile", h, 0)
    /\ h \in Members(projFree')

\* C24: a step of either update_projectiles takes dt off the lifetime of every
\* projectile first; a projectile whose lifetime is then <= 0 is retired in
\* that frame where it is, and it damages nobody: only the projectiles that
\* outlive the step are moved by direction * speed * dt, and only those moved
\* onto an actor take health from it.
C24_ExpiryBeforeMoveAndHit ==
    [][/\ StepOf("update_projectiles")
          => /\ \A p \in ActiveProjs :
                   /\ projs'[p].lifetime = projs[p].lifetime - input.dt
                   /\ IF Outlives(projs[p])
                      THEN projs'[p].pos = MovedTo(projs[p])
                      ELSE /\ projs'[p].pos = projs[p].pos
                           /\ Queued(NewCmds, "Projectile", p)
             /\ \A e \in EnemyIds : Hitters(e) = {} => enemies'[e] = enemies[e]
             /\ player' = player
       /\ StepOf("combat_core::update_projectiles")
          => /\ \A h \in CoreProjs(ents) :
                   /\ ents'[h].lifetime = ents[h].lifetime - input.dt
                   /\ IF Outlives(ents[h])
                      THEN ents'[h].pos = MovedTo(ents[h])
                      ELSE /\ ents'[h].pos = ents[h].pos
                           /\ CoreRetired(h)
             /\ \A e \in EnemyIds : CoreHitters(e) = {} => enemies'[e] = enemies[e]
             /\ CorePlayerHitters = {} => player' = player]_vars

\* a frame of 1.2 s: a shot of the wand and a pooled projectile of the player
\* have expired where they were spawned, within the hit radius of an enemy
\* that has taken no damage
C24_Witness ==
    /\ {"update_projectiles", "combat_core::update_projectiles"} \subseteq ran
    /\ \E p \in ActiveProjs, h \in CoreProjs(ents), e \in EnemyIds :
          /\ projs[p].lifetime <= 0
          /\ projs[p].pos = ZERO
          /\ Queued(commands, "Projectile", p)
          /\ ents[h].from_player
          /\ ents[h].lifetime <= 0
          /\ ents[h].pos = ZERO
          /\ h \in Members(projFree)
          /\ enemies[e].alive
          /\ Within(enemies[e].pos, ZERO, HIT_RADIUS)
          /\ enemies[e].hp = enemies[e].max

RECURSIVE DamageOf(_, _)
\* the damage of the projectiles ps of a table, added up
DamageOf(table, ps) ==
    IF ps = {} THEN 0
    ELSE table[Min(ps)].damage + DamageOf(table, ps \ {Min(ps)})

\* the queue holds a later command that puts a new projectile in the place of
\* the one that command i retires
Replaced(i, slot) ==
    \E j \in (i + 1)..Len(commands) :
        \/ /\ commands[j].op = "spawn"
           /\ commands[j].kind = "Projectile"
           /\ commands[i].kind = "Projectile"
           /\ slot = commands[j].data
        \/ /\ commands[j].op = "insert"
           /\ commands[j].kind = "CoreProjectile"
           /\ commands[i].kind = "CoreProjectile"
           /\ commands[j].id = commands[i].id
           /\ slot = WithProjectile(slot, commands[j].data)

\* C25: in a step of either update_projectiles every enemy loses exactly the
\* damage of each projectile of the player that the step moves to within the
\* hit radius of it, so that an enemy outside the radius of all of them is
\* unchanged; each such projectile is retired by that step; and the end of the
\* frame takes every retired projectile out of the world, so that it is not
\* stepped again.
C25_HitsAllInRadiusThenRetires ==
    [][/\ StepOf("update_projectiles")
          => /\ \A e \in EnemyIds :
                   enemies[e].alive
                   => enemies'[e] =
                        [enemies[e] EXCEPT !.hp = @ - DamageOf(projs, Hitters(e))]
             /\ \A p \in ActiveProjs :
                   (\E e \in EnemyIds : enemies[e].alive /\ p \in Hitters(e))
                   => Queued(NewCmds, "Projectile", p)
       /\ StepOf("combat_core::update_projectiles")
          => /\ \A e \in EnemyIds :
                   enemies[e].alive
                   => enemies'[e] =
                        [enemies[e] EXCEPT !.hp = @ - DamageOf(ents, CoreHitters(e))]
             /\ \A h \in CoreProjs(ents) :
                   (\E e \in EnemyIds : enemies[e].alive /\ h \in CoreHitters(e))
                   => CoreRetired(h)
       /\ EndOfFrame
          => \A i \in 1..Len(commands) :
                /\ (commands[i].op = "despawn" /\ commands[i].kind = "Projectile")
                   => \/ ~projs'[commands[i].id].active
                      \/ Replaced(i, projs'[commands[i].id])
                /\ (commands[i].op = "remove" /\ commands[i].kind = "CoreProjectile")
                   => \/ ~ents'[commands[i].id].hasProj
                      \/ Replaced(i, ents'[commands[i].id])]_vars

\* a shot of the wand and a pooled projectile of the player have been moved to
\* within the hit radius of two enemies at once: both enemies have lost the
\* damage of both, and both projectiles are retired
C25_Witness ==
    /\ {"update_projectiles", "combat_core::update_projectiles"} \subseteq ran
    /\ \E p \in ActiveProjs, h \in CoreProjs(ents) :
          /\ projs[p].lifetime > 0
          /\ Queued(commands, "Projectile", p)
          /\ ents[h].from_player
          /\ ents[h].lifetime > 0
          /\ h \in Members(projFree)
          /\ \A e \in {1, 2} :
                /\ enemies[e].alive
                /\ Within(enemies[e].pos, projs[p].pos, HIT_RADIUS)
                /\ Within(enemies[e].pos, ents[h].pos, HIT_RADIUS)
                /\ enemies[e].hp = enemies[e].max - projs[p].damage - ents[h].damage

(***************************************************************************)
(* The countdowns                                                           *)
(***************************************************************************)
\* C26 as stated: the cooldown of the basic attack, of the Slash, of the dash
\* and the contact cooldown of every enemy are >= 0 in every reachable state.
C26_CooldownsNeverNegative ==
    /\ attack.basic_cooldown >= 0
    /\ attack.slash_cooldown >= 0
    /\ dash.cooldown >= 0
    /\ \A e \in EnemyIds : enemies[e].alive => enemies[e].contact >= 0

\* C26: the cooldown of the basic attack, of the Slash and of the dash are
\* >= 0 in every reachable state. The contact cooldown of an enemy has no
\* floor: it falls below zero only by the dt taken off it while it is > 0, and
\* once it is <= 0 it is left as it is until a contact sets it anew.
C26_FlooredButForContact ==
    /\ [](/\ attack.basic_cooldown >= 0
          /\ attack.slash_cooldown >= 0
          /\ dash.cooldown >= 0)
    /\ [][\A e \in EnemyIds :
            (enemies[e].alive /\ enemies'[e].alive)
            => /\ (enemies'[e].contact < 0 /\ enemies'[e].contact # enemies[e].contact)
                    => /\ enemies[e].contact > 0
                       /\ enemies'[e].contact = enemies[e].contact - input.dt
               /\ enemies[e].contact <= 0
                    => \/ enemies'[e].contact = enemies[e].contact
                       \/ enemies'[e].contact = CONTACT_COOLDOWN]_vars

\* a frame of 3.2 s has been taken off the three cooldowns and off the contact
\* cooldown of an enemy: the cooldown of the basic attack is 0, that of the
\* dash is under way, the contact cooldown is below zero
C26_Witness ==
    /\ {"tick_attack_state", "apply_player_movement",
        "apply_contact_damage_to_player"} \subseteq ran
    /\ input.dt = 64
    /\ attack.basic_cooldown = 0
    /\ dash.cooldown > 0
    /\ dash.cooldown < DASH_COOLDOWN
    /\ \E e \in EnemyIds : enemies[e].alive /\ enemies[e].contact < 0

(***************************************************************************)
(* The end of every projectile                                              *)
(***************************************************************************)
\* the projectile of combat.rs in the slot is gone or its despawn is queued
Retiring(p) == ~projs[p].active \/ Queued(commands, "Projectile", p)

\* the pooled projectile of the handle is gone or its removal is queued
CoreRetiring(h) ==
    \/ ~ents[h].hasProj
    \/ \E i \in 1..Len(commands) : commands[i] = Cmd("remove", "CoreProjectile", h, 0)

\* the frames have come to an end: an actor has no health left
Stopped == phase = "idle" /\ ~Healthy

\* a later command of the queue puts a new projectile in the slot
Respawned(slot) ==
    \E j \in 1..Len(commands) :
        /\ commands[j].op \in {"spawn", "insert"}
        /\ commands[j].kind \in {"Projectile", "CoreProjectile"}
        /\ slot.lifetime = commands[j].data.lifetime

\* C27: as long as InGame frames keep occurring, every projectile of either
\* module is eventually retired by a step of update_projectiles, and the end
\* of that frame takes it out of the active set: none stays active for ever.
C27_EveryProjectileIsRetired ==
    /\ \A p \in ProjIds : []<>(Retiring(p) \/ Stopped)
    /\ \A h \in Handles : []<>(CoreRetiring(h) \/ Stopped)
    /\ [][EndOfFrame
          => /\ \A p \in ProjIds :
                   (projs[p].active /\ Retiring(p))
                   => (projs'[p].active => Respawned(projs'[p]))
             /\ \A h \in Handles :
                   (ents[h].hasProj /\ CoreRetiring(h))
                   => (ents'[h].hasProj => Respawned(ents'[h]))]_vars

\* the frames go on after a shot of the wand has expired or hit and a pooled
\* projectile has been retired: neither is in the world any more
C27_Witness ==
    /\ phase = "idle"
    /\ attack.basic_cooldown > 0
    /\ ActiveProjs = {}
    /\ CoreProjs(ents) = {}
    /\ projFree # <<>>
    /\ Healthy

(***************************************************************************)
(* The removal of a dead enemy                                              *)
(***************************************************************************)
\* the despawns of the enemy among the queued commands
EnemyDespawns(e) ==
    {i \in 1..Len(commands) :
        /\ commands[i].op = "despawn"
        /\ commands[i].kind = "Enemy"
        /\ commands[i].id = e}

\* C28 as stated: in no frame, under any order of the combat systems, are two
\* despawn commands queued for the same enemy.
C28_DespawnedOnce ==
    \A e \in EnemyIds : Cardinality(EnemyDespawns(e)) <= 1

(***************************************************************************)
(* The slots of the rotating cards                                          *)
(***************************************************************************)
\* C29 as stated: between frames, after any firings of the spawn timer and
\* activations of slots, no two rotating cards are shown at the same slot, the
\* cards are shown at the slots 1..k, and the card that the key of slot i
\* acts on, the i-th in query order, is the one shown at slot i.
C29_SlotsDistinctAndContiguous ==
    phase = "idle"
        => /\ Cardinality(SlotsOf(cards)) = Len(cards)
           /\ SlotsOf(cards) = 1..Len(cards)
           /\ \A i \in 1..Len(cards) : cards[i].slot = i

(***************************************************************************)
(* The skill bar through a pause                                            *)
(***************************************************************************)
\* the frame's commands spawn or despawn no skill card
NoCardCommand == \A i \in 1..Len(commands) : commands[i].kind # "SkillCard"

\* C30 as stated: the rotating skill cards held when the game is paused are
\* those held once it is resumed, and while the game is Paused no cooldown,
\* health, projectile or skill card changes.
C30_PauseKeepsTheRotation ==
    [][/\ (gameState = "InGame" /\ gameState' = "Paused" /\ NoCardCommand)
             => cards' = cards
       /\ gameState = "Paused"
             => /\ cards' = cards
                /\ attack' = attack
                /\ dash.cooldown' = dash.cooldown
                /\ player' = player
                /\ enemies' = enemies
                /\ projs' = projs
                /\ ents' = ents]_vars

====
